---- MODULE Spec2Model ----
(***************************************************************************)
(* Verification model of the Matrix room authorization engine of           *)
(* Construct (modules/m_room_auth.cc).                                     *)
(*                                                                         *)
(* Strings that the code inspects character-wise (sender, state_key) are   *)
(* sequences of characters; strings that are only compared for equality    *)
(* (type, room_id, membership) are TLA+ strings.  An event index 0 is the  *)
(* code's "no event" (idx 0 / nullptr).                                    *)
(***************************************************************************)
EXTENDS Naturals, Integers, Sequences, FiniteSets, TLC

VARIABLES
    event,      \* the event under check (const m::event &event)
    authv,      \* data.auth_events: sequence of indexes into Stored
    data,       \* room::auth::hookdata
    pc,         \* position inside room::auth::check
    trace,      \* history: the rule numbers evaluated by the running check/3
    hooked,     \* history: <<rule, outcome>> of every call of room_auth_hook
    pass,       \* 0: check/3 called directly; 1, 2: first / second call by check/2
    refs,       \* m::event::prev refs{event}: the auth_events references of the event
    present,    \* the present room state: set of indexes into Stored
    auth,       \* m::event::fetch auth[9] as indexes (0: not valid)
    ret,        \* check/2: local `ret`, the passfail of the last check/3 call
    first,      \* history: passfail of the first check/3 call of check/2
    pev,        \* is_power_event: the argument
    pres,       \* is_power_event: the returned value (once pc = "returned")
    cg,         \* auth chain: the auth_events references of each stored event
    cfetch,     \* auth chain: the event indexes whose event can be fetched
    cstart,     \* auth chain: c.idx, the event the enumeration starts at
    cpc,        \* auth chain: position inside chain::for_each
    aq,         \* auth chain: std::deque<event::idx> aq
    ae,         \* auth chain: std::set<event::idx> ae
    todo,       \* auth chain: the part of ae the final loop has not visited
    called,     \* auth chain history: the indexes given to the closure, in order
    cret,       \* auth chain: the value returned by for_each
    queued,     \* auth chain history: the indexes put into aq, in order
    sdb,        \* the keys stored in the column
    scache,     \* the keys whose blocks are in the block cache; 0 is the block
                \* that tells that no further key exists
    sit,        \* the caller's iterator (std::unique_ptr<rocksdb::Iterator> &it)
    sp,         \* the argument p of the running seek()
    spc,        \* position of the running seek()
    sret,       \* the value seek() returned
    sorig,      \* the argument of the caller's seek(), kept over re-entries
    sheld,      \* the key the iterator held when the caller's seek() began
    soff,       \* offloads made since the caller's seek() began
    sdisp,      \* cache displacements so far
    sfound,     \* blocking_it->key() of the last offload
    store,      \* the values of the cells of the database (0: no value)
    wkind,      \* the running or last batch write: "cells", "column", or "none"
    wdeltas,    \* batch write: the deltas given by the caller
    wbatch,     \* batch write: rocksdb::WriteBatch batch
    wpc,        \* batch write: position inside the write
    wpre,       \* batch write history: the database when the write began
    snap,       \* the view of a snapshot taken by a reader
    snapw,      \* the snapshot was taken since the batch write began
    wk,         \* history: the key of the last write(column, key, value)
    wv,         \* history: the value given to that write
    rdk,        \* the key of the last read(column, key)
    rdv,         \* the bytes that read returned
    cdb,        \* cell: the value of the cell's key in the database now (0: none)
    chas,       \* cell: a cell or row has been constructed
    css,        \* cell: the value of the key at the snapshot the cell holds (cell::ss)
    cnew,       \* cell: the database was written since that snapshot
    cit,        \* cell: cell::it, with the value of the key in the view it is pinned to
    cdone,      \* cell: val() has returned
    cread,       \* cell: the value val() returned (0: empty string_view)
    ein,        \* insert: the json::iov given by the caller of the last insert
    eiov,       \* insert: the event made from the iov (event_id and origin_server_ts set)
    eclock,     \* insert: the time, time<milliseconds>()
    ecount,     \* insert: the calls of event::insert so far
    etxn,       \* insert: db::iov txn, the deltas appended so far
    epc,        \* insert: position inside event::insert
    edb,        \* insert: the cells of the events database
    epre,       \* insert history: the events database when the insert began
    ecommitted, \* insert history: the commits that succeeded
    enotified,  \* insert history: the notifications of event::inserted
    erep,       \* insert history: the iov is the one of the insert before, which committed
    eafter,     \* insert history: the events database after the first insert of that iov
    eerr,        \* insert: the exception the last insert threw ("none" if it returned)
    tlog,        \* throw_on_error history: [code, thrown] of every call so far
    odisk,      \* database open: the columns on disk at the path (empty: no database there)
    opre,       \* the columns on disk before the open
    odesc,      \* the columns of the description
    oro,        \* the read_only option
    olst,       \* the status ListColumnFamilies returned
    onames,     \* what column_names returned
    ost,        \* the status Open returned, "none" before it is called
    opc,        \* "init", "listed", "checked", "open" or "failed"
    ohandles,   \* the columns holding a handle
    oerr,        \* the error the constructor threw, "none" without one
    gev,        \* room::auth::generate: the event
    gstate,     \* the present state of the room (positions in Stored)
    gver,       \* the version of the room
    gout,       \* the json array written
    gret,       \* what generate(out, room, event) returned
    gpc,         \* "call" or "done"
    kevents,    \* console: the events whose index cells are stored
    khead,      \* the entries of the room head
    klog,        \* per command: its name, the state before and after, the evals it made
    varg,       \* evaluation: the oparg words of "fed event"
    veval,      \* the op is "eval"
    vfail,      \* the phases this event fails
    vstored,    \* the event is already stored
    vopts,      \* vmopts.phase: the enabled phases
    vi,         \* the position of the next phase
    vran,       \* the phases run, in order
    vresult,    \* "ready", "running", "accepted" or "rejected"
    vfailed,    \* the phase recorded by a rejection, "none" without one
    vrows,       \* a row was written
    hdb,        \* db::has: the keys stored in the column
    hkey,       \* the key asked for
    hcached,    \* the answer for the key is in the cache
    htier,      \* opts.read_tier
    hstatus,    \* the status of the last Get, "none" before it
    hpc,        \* "call", "get", "offload", "result" or "done"
    hret,        \* "true", "false", the error thrown, or "undefined"
    mdb,        \* room::membership: the m.room.member events of the room
    mtime,      \* their event ids in the order of insertion
    mlog,        \* per call: the user, the membership asked, the current one, the result
    freqs,      \* feds::handler: the requests in the list reqs
    fstate,     \* per origin: "pending", "ok" (response) or "err" (exception)
    fdone,      \* the origins whose request completed, in the order of completion
    fnow,       \* the steady clock
    fwhen,      \* the deadline: now + opts.timeout at entry
    fdeliv,     \* the calls of the closure: origin, kind, what the closure did
    fpc,        \* "loop" or "done"
    fret,        \* "running", "true", "false" or "threw"
    xdb,        \* row: the keys stored in each column of the database
    xkey,       \* row: the key the row was built for (0: the empty key)
    xits,       \* row: std::vector<cell> its
    xread,      \* row: the last value a cell of the row returned
    xpc,         \* row: "none" until the row is built
    qdb,        \* compare_exchange: the value stored under the key of the cell (0: none)
    qit,        \* compare_exchange: the iterator of the cell
    qnew,       \* compare_exchange: the database was written since the cell was made
    qlog,        \* compare_exchange history: the calls made, in order
    ya,         \* const_iterator: the left operand of the comparisons
    yb,         \* const_iterator: the right operand
    ybuild,     \* const_iterator: what memcmp of the build returns for unequal bytes
    yeq,        \* const_iterator: the outcome of a == b once evaluated
    ygt,        \* const_iterator: the outcome of a > b once evaluated
    ylt         \* const_iterator: the outcome of a < b once evaluated

\* the variables of each component
AuthVars == <<event, authv, data, pc, trace, hooked, pass, refs, present, auth,
              ret, first, pev, pres>>

ChainVars == <<cg, cfetch, cstart, cpc, aq, ae, todo, called, cret, queued>>

SeekVars == <<sdb, scache, sit, sp, spc, sret, sorig, sheld, soff, sdisp, sfound>>

WriteVars == <<store, wkind, wdeltas, wbatch, wpc, wpre, snap, snapw, wk, wv, rdk, rdv>>

CellVars == <<cdb, chas, css, cnew, cit, cdone, cread>>

InsertVars == <<ein, eiov, eclock, ecount, etxn, epc, edb, epre, ecommitted, enotified, erep, eafter, eerr>>

StatusVars == <<tlog>>

OpenVars == <<odisk, opre, odesc, oro, olst, onames, ost, opc, ohandles, oerr>>

GenVars == <<gev, gstate, gver, gout, gret, gpc>>

ConsoleVars == <<kevents, khead, klog>>

VmVars == <<varg, veval, vfail, vstored, vopts, vi, vran, vresult, vfailed, vrows>>

HasVars == <<hdb, hkey, hcached, htier, hstatus, hpc, hret>>

MemberVars == <<mdb, mtime, mlog>>

FedsVars == <<freqs, fstate, fdone, fnow, fwhen, fdeliv, fpc, fret>>

RowVars == <<xdb, xkey, xits, xread, xpc>>

CasVars == <<qdb, qit, qnew, qlog>>

IterVars == <<ya, yb, ybuild, yeq, ygt, ylt>>

vars == <<AuthVars, ChainVars, SeekVars, WriteVars, CellVars, InsertVars, StatusVars, OpenVars, GenVars, ConsoleVars, VmVars, HasVars, MemberVars, FedsVars, RowVars, CasVars, IterVars>>

\* what the actions of a component leave alone
AuthRest == <<ChainVars, SeekVars, WriteVars, CellVars, InsertVars, StatusVars, OpenVars, GenVars, ConsoleVars, VmVars, HasVars, MemberVars, FedsVars, RowVars, CasVars, IterVars>>

ChainRest == <<AuthVars, SeekVars, WriteVars, CellVars, InsertVars, StatusVars, OpenVars, GenVars, ConsoleVars, VmVars, HasVars, MemberVars, FedsVars, RowVars, CasVars, IterVars>>

SeekRest == <<AuthVars, ChainVars, WriteVars, CellVars, InsertVars, StatusVars, OpenVars, GenVars, ConsoleVars, VmVars, HasVars, MemberVars, FedsVars, RowVars, CasVars, IterVars>>

WriteRest == <<AuthVars, ChainVars, SeekVars, CellVars, InsertVars, StatusVars, OpenVars, GenVars, ConsoleVars, VmVars, HasVars, MemberVars, FedsVars, RowVars, CasVars, IterVars>>

CellRest == <<AuthVars, ChainVars, SeekVars, WriteVars, InsertVars, StatusVars, OpenVars, GenVars, ConsoleVars, VmVars, HasVars, MemberVars, FedsVars, RowVars, CasVars, IterVars>>

InsertRest == <<AuthVars, ChainVars, SeekVars, WriteVars, CellVars, StatusVars, OpenVars, GenVars, ConsoleVars, VmVars, HasVars, MemberVars, FedsVars, RowVars, CasVars, IterVars>>

StatusRest == <<AuthVars, ChainVars, SeekVars, WriteVars, CellVars, InsertVars, OpenVars, GenVars, ConsoleVars, VmVars, HasVars, MemberVars, FedsVars, RowVars, CasVars, IterVars>>

OpenRest == <<AuthVars, ChainVars, SeekVars, WriteVars, CellVars, InsertVars, StatusVars, GenVars, ConsoleVars, VmVars, HasVars, MemberVars, FedsVars, RowVars, CasVars, IterVars>>

GenRest == <<AuthVars, ChainVars, SeekVars, WriteVars, CellVars, InsertVars, StatusVars, OpenVars, ConsoleVars, VmVars, HasVars, MemberVars, FedsVars, RowVars, CasVars, IterVars>>

ConsoleRest == <<AuthVars, ChainVars, SeekVars, WriteVars, CellVars, InsertVars, StatusVars, OpenVars, GenVars, VmVars, HasVars, MemberVars, FedsVars, RowVars, CasVars, IterVars>>

VmRest == <<AuthVars, ChainVars, SeekVars, WriteVars, CellVars, InsertVars, StatusVars, OpenVars, GenVars, ConsoleVars, HasVars, MemberVars, FedsVars, RowVars, CasVars, IterVars>>

HasRest == <<AuthVars, ChainVars, SeekVars, WriteVars, CellVars, InsertVars, StatusVars, OpenVars, GenVars, ConsoleVars, VmVars, MemberVars, FedsVars, RowVars, CasVars, IterVars>>

MemberRest == <<AuthVars, ChainVars, SeekVars, WriteVars, CellVars, InsertVars, StatusVars, OpenVars, GenVars, ConsoleVars, VmVars, HasVars, FedsVars, RowVars, CasVars, IterVars>>

FedsRest == <<AuthVars, ChainVars, SeekVars, WriteVars, CellVars, InsertVars, StatusVars, OpenVars, GenVars, ConsoleVars, VmVars, HasVars, MemberVars, RowVars, CasVars, IterVars>>

RowRest == <<AuthVars, ChainVars, SeekVars, WriteVars, CellVars, InsertVars, StatusVars, OpenVars, GenVars, ConsoleVars, VmVars, HasVars, MemberVars, FedsVars, CasVars, IterVars>>

CasRest == <<AuthVars, ChainVars, SeekVars, WriteVars, CellVars, InsertVars, StatusVars, OpenVars, GenVars, ConsoleVars, VmVars, HasVars, MemberVars, FedsVars, RowVars, IterVars>>

IterRest == <<AuthVars, ChainVars, SeekVars, WriteVars, CellVars, InsertVars, StatusVars, OpenVars, GenVars, ConsoleVars, VmVars, HasVars, MemberVars, FedsVars, RowVars, CasVars>>

\* a component no specification is running
ChainIdle ==
    /\ cg = << >>
    /\ cfetch = {}
    /\ cstart = 0
    /\ cpc = "idle"
    /\ aq = << >>
    /\ ae = {}
    /\ todo = {}
    /\ called = << >>
    /\ cret = TRUE
    /\ queued = << >>

SeekIdle ==
    /\ sdb = {}
    /\ scache = {}
    /\ sit = [st |-> "null", key |-> 0]
    /\ sp = [kind |-> "none", key |-> 0]
    /\ spc = "off"
    /\ sret = FALSE
    /\ sorig = [kind |-> "none", key |-> 0]
    /\ sheld = 0
    /\ soff = 0
    /\ sdisp = 0
    /\ sfound = 0

WriteIdle ==
    /\ store = << >>
    /\ wkind = "off"
    /\ wdeltas = << >>
    /\ wbatch = << >>
    /\ wpc = "off"
    /\ wpre = << >>
    /\ snap = << >>
    /\ snapw = FALSE
    /\ wk = 0
    /\ wv = 0
    /\ rdk = 0
    /\ rdv = 0

CellIdle ==
    /\ cdb = 0
    /\ chas = FALSE
    /\ css = 0
    /\ cnew = FALSE
    /\ cit = [st |-> "off", view |-> 0]
    /\ cdone = FALSE
    /\ cread = 0

InsertIdle ==
    /\ ein = << >>
    /\ eiov = << >>
    /\ eclock = 0
    /\ ecount = 0
    /\ etxn = << >>
    /\ epc = "off"
    /\ edb = {}
    /\ epre = {}
    /\ ecommitted = 0
    /\ enotified = 0
    /\ erep = FALSE
    /\ eafter = {}
    /\ eerr = "none"

StatusIdle ==
    /\ tlog = << >>

OpenIdle ==
    /\ odisk = {}
    /\ opre = {}
    /\ odesc = {}
    /\ oro = FALSE
    /\ olst = "none"
    /\ onames = {}
    /\ ost = "none"
    /\ opc = "idle"
    /\ ohandles = {}
    /\ oerr = "none"

GenIdle ==
    /\ gev = [type |-> ""]
    /\ gstate = {}
    /\ gver = ""
    /\ gout = << >>
    /\ gret = FALSE
    /\ gpc = "idle"

ConsoleIdle ==
    /\ kevents = {}
    /\ khead = {}
    /\ klog = << >>

VmIdle ==
    /\ varg = {}
    /\ veval = FALSE
    /\ vfail = {}
    /\ vstored = FALSE
    /\ vopts = {}
    /\ vi = 0
    /\ vran = << >>
    /\ vresult = "idle"
    /\ vfailed = "none"
    /\ vrows = FALSE

HasIdle ==
    /\ hdb = {}
    /\ hkey = 0
    /\ hcached = FALSE
    /\ htier = "none"
    /\ hstatus = "none"
    /\ hpc = "idle"
    /\ hret = "none"

MemberIdle ==
    /\ mdb = {}
    /\ mtime = << >>
    /\ mlog = << >>

FedsIdle ==
    /\ freqs = {}
    /\ fstate = << >>
    /\ fdone = << >>
    /\ fnow = 0
    /\ fwhen = 0
    /\ fdeliv = << >>
    /\ fpc = "idle"
    /\ fret = "none"

RowIdle ==
    /\ xdb = << >>
    /\ xkey = 0
    /\ xits = << >>
    /\ xread = << >>
    /\ xpc = "idle"

CasIdle ==
    /\ qdb = 0
    /\ qit = [st |-> "off", view |-> 0]
    /\ qnew = FALSE
    /\ qlog = << >>

IterIdle ==
    /\ ya = [st |-> "off", key |-> 0]
    /\ yb = [st |-> "off", key |-> 0]
    /\ ybuild = "none"
    /\ yeq = << >>
    /\ ygt = << >>
    /\ ylt = << >>

AuthRestIdle == ChainIdle /\ SeekIdle /\ WriteIdle /\ CellIdle /\ InsertIdle /\ StatusIdle /\ OpenIdle /\ GenIdle /\ ConsoleIdle /\ VmIdle /\ HasIdle /\ MemberIdle /\ FedsIdle /\ RowIdle /\ CasIdle /\ IterIdle

(***************************************************************************)
(* Bounds of the model.                                                    *)
(***************************************************************************)
\* largest auth set handed directly to check/3
MaxAuth == 3

\* largest number of auth_events references of an event given to check/2
MaxRefs == 5

\* largest number of auth_events references of the event an auth chain starts at
MaxChainRefs == 5

\* the keys of a column are 1..MaxKey
MaxKey == 3

\* how often other contexts displace a block from the cache
MaxDisplace == 2

\* largest number of deltas given to one batch write
MaxDeltas == 2

\* largest number of calls of event::insert
MaxInserts == 2

\* the clock runs from 1 to MaxTime
MaxTime == 2

\* largest number of calls of throw_on_error
MaxThrows == 2

\* console commands in one behaviour
MaxCommands == 2

\* calls of room::membership in one behaviour
MaxMember == 3

\* origins of a room asked by feds
MaxOrigins == 2

\* ticks of the steady clock
MaxClock == 2

\* the values a cell is given by compare_exchange
MaxCasVal == 3

(***************************************************************************)
(* Strings                                                                 *)
(***************************************************************************)
Empty == << >>
UserA == <<"@", "a">>
UserB == <<"@", "b">>
Word  == <<"x">>

\* ircd::startswith(string_view, char)
startswith(s, c) == Len(s) > 0 /\ s[1] = c

(***************************************************************************)
(* Events.  has_state_key is defined(json::get<"state_key"_>(event)); an   *)
(* undefined string property reads as the empty string.                    *)
(***************************************************************************)
Ev(t, sk, hsk, snd, room, mem) ==
    [type |-> t, state_key |-> sk, has_state_key |-> hsk, sender |-> snd,
     room_id |-> room, membership |-> mem]

\* m::membership(event): content.membership of the event
membership(e) == e.membership

\* The events stored locally; an event idx is a position in this table.
Stored ==
    << Ev("m.room.create",             Empty, TRUE, UserA, "r1", ""),
       Ev("m.room.power_levels",       Empty, TRUE, UserA, "r1", ""),
       Ev("m.room.join_rules",         Empty, TRUE, UserA, "r1", ""),
       Ev("m.room.member",             UserA, TRUE, UserA, "r1", "join"),
       Ev("m.room.member",             UserA, TRUE, UserA, "r1", "leave"),
       Ev("m.room.member",             UserB, TRUE, UserB, "r1", "join"),
       Ev("m.room.create",             Empty, TRUE, UserB, "r2", ""),
       Ev("m.room.third_party_invite", Word,  TRUE, UserA, "r1", ""),
       Ev("m.room.topic",              Empty, TRUE, UserA, "r1", "") >>

Idx == 1..Len(Stored)


\* capacity of `const m::event *authv[4]` and of the inspected references
AuthvSize == 4

\* size of `m::event::idx idxs[9]`
IdxsSize == 9

(***************************************************************************)
(* room::auth::hookdata                                                    *)
(***************************************************************************)
\* hookdata::find: the first event of auth_events the closure accepts; the
\* closure is given as the set of the stored events it accepts
RECURSIVE findFrom(_, _, _)
findFrom(av, accepts, i) ==
    IF i > Len(av) THEN 0
    ELSE IF av[i] \in accepts THEN av[i]
    ELSE findFrom(av, accepts, i + 1)

find(av, accepts) == findFrom(av, accepts, 1)

\* hookdata::hookdata(event, auth_events); allow and fail start unset
hookdata(ev, av) ==
    [allow |-> FALSE,
     fail  |-> "none",
     auth_create        |-> find(av, {i \in Idx: Stored[i].type = "m.room.create"}),
     auth_power         |-> find(av, {i \in Idx: Stored[i].type = "m.room.power_levels"}),
     auth_join_rules    |-> find(av, {i \in Idx: Stored[i].type = "m.room.join_rules"}),
     auth_member_target |-> find(av, {i \in Idx: /\ Stored[i].type = "m.room.member"
                                                 /\ Stored[i].state_key = ev.state_key}),
     auth_member_sender |-> find(av, {i \in Idx: /\ Stored[i].type = "m.room.member"
                                                 /\ Stored[i].state_key = ev.sender})]

NoData == hookdata(Ev("", Empty, FALSE, Empty, "", ""), << >>)

(***************************************************************************)
(* The rules.  Each operator yields "ok" or the failure the rule throws.   *)
(***************************************************************************)
\* rule_2_entry without the search for a duplicate (type, state_key)
rule_2_entry_nodup(ev, av, i) ==
    LET a == Stored[av[i]] IN
    IF a.room_id # ev.room_id THEN "2b"
    ELSE IF a.type \in {"m.room.create", "m.room.power_levels", "m.room.join_rules"}
    THEN "ok"
    ELSE IF /\ a.type = "m.room.member"
            /\ \/ ev.sender = a.state_key
               \/ ev.state_key = a.state_key
    THEN "ok"
    ELSE "2c"

\* rule_2_entry without the comparison of the room_id
rule_2_entry_noroom(ev, av, i) ==
    LET a == Stored[av[i]] IN
    IF \E j \in 1..Len(av):
           /\ i # j
           /\ a.type = Stored[av[j]].type
           /\ a.state_key = Stored[av[j]].state_key
    THEN "2a"
    ELSE IF a.type \in {"m.room.create", "m.room.power_levels", "m.room.join_rules"}
    THEN "ok"
    ELSE IF /\ a.type = "m.room.member"
            /\ \/ ev.sender = a.state_key
               \/ ev.state_key = a.state_key
    THEN "ok"
    ELSE "2c"

\* one iteration of the outer loop of check_room_auth_rule_2
rule_2_entry(ev, av, i) ==
    LET a == Stored[av[i]] IN
    IF \E j \in 1..Len(av):
           /\ i # j
           /\ a.type = Stored[av[j]].type
           /\ a.state_key = Stored[av[j]].state_key
    THEN "2a"
    ELSE IF a.room_id # ev.room_id THEN "2b"
    ELSE IF a.type = "m.room.create" THEN "ok"
    ELSE IF a.type = "m.room.power_levels" THEN "ok"
    ELSE IF a.type = "m.room.join_rules" THEN "ok"
    ELSE IF /\ a.type = "m.room.member"
            /\ \/ ev.sender = a.state_key
               \/ ev.state_key = a.state_key
    THEN "ok"
    ELSE "2c"

RECURSIVE rule_2_from(_, _, _)
rule_2_from(ev, av, i) ==
    IF i > Len(av) THEN "ok"
    ELSE LET r == rule_2_entry(ev, av, i) IN
         IF r # "ok" THEN r ELSE rule_2_from(ev, av, i + 1)

check_room_auth_rule_2(ev, av) == rule_2_from(ev, av, 1)

\* rule 3 looking at the wrong member of the hookdata
check_room_auth_rule_3_power(d) ==
    IF d.auth_power = 0 THEN "3" ELSE "ok"

check_room_auth_rule_3(d) ==
    IF d.auth_create = 0 THEN "3" ELSE "ok"

check_room_auth_rule_6(d) ==
    IF d.auth_member_sender # 0
       /\ membership(Stored[d.auth_member_sender]) # "join"
    THEN "6" ELSE "ok"

\* room::power: the level of a user and the level an event type requires.
\* Content of the stored m.room.power_levels event: users {@a: 50},
\* events {m.room.power_levels: 100}; the defaults are 50 for a state event,
\* 0 for any other event and for any other user; without a power_levels
\* event the sender of m.room.create holds 100.
power_user_level(d, user) ==
    IF d.auth_power # 0
    THEN (IF user = UserA THEN 50 ELSE 0)
    ELSE (IF Stored[d.auth_create].sender = user THEN 100 ELSE 0)

power_event_level(d, type, hsk) ==
    IF d.auth_power # 0 /\ type = "m.room.power_levels" THEN 100
    ELSE IF hsk THEN 50
    ELSE 0

\* room::power::operator()(user, "events", type, state_key)
power(d, user, type, hsk) ==
    power_user_level(d, user) >= power_event_level(d, type, hsk)

check_room_auth_rule_8(ev, d) ==
    IF ~power(d, ev.sender, ev.type, ev.has_state_key) THEN "8" ELSE "ok"

\* rule 9 without the comparison with the sender
check_room_auth_rule_9_always(ev) ==
    IF startswith(ev.state_key, "@") THEN "9" ELSE "ok"

check_room_auth_rule_9(ev) ==
    IF startswith(ev.state_key, "@") /\ ev.state_key # ev.sender
    THEN "9" ELSE "ok"

\* catch(const FAIL &e) of check/3
caught(d, f) == [d EXCEPT !.allow = FALSE, !.fail = f]

\* What the handlers registered on the room.auth hook site may do with the
\* hookdata: set data.allow, throw FAIL, or (no handler for the type) nothing.
HookOutcomes == {"allow", "throw", "none"}

\* room_auth_hook(event, data) followed by the catch block when it throws
room_auth_hook(d, o) ==
    CASE o = "allow" -> [d EXCEPT !.allow = TRUE]
      [] o = "throw" -> caught(d, "hook")
      [] OTHER       -> d

(***************************************************************************)
(* room::auth::check(std::nothrow, event, hookdata &): one action per      *)
(* numbered step of the function body.                                     *)
(***************************************************************************)
\* where check/3 returns to
Return == CASE pass = 1 -> "ret1" [] pass = 2 -> "ret2" [] OTHER -> "done"

CheckFrame == <<event, authv, pass, refs, present, auth, ret, first, pev, pres,
                AuthRest>>

\* a step that calls the hook and returns {data.allow, data.fail}
HookStep(n) ==
    \E o \in HookOutcomes:
        /\ data' = room_auth_hook(data, o)
        /\ hooked' = Append(hooked, <<n, o>>)
        /\ trace' = Append(trace, n)
        /\ pc' = Return

\* RuleStep whose failure is recorded without leaving the function
RuleStep_continue(n, r, next) ==
    /\ trace' = Append(trace, n)
    /\ hooked' = hooked
    /\ data' = IF r = "ok" THEN data ELSE caught(data, r)
    /\ pc' = next

\* a step that evaluates a check_room_auth_rule_N
RuleStep(n, r, next) ==
    /\ trace' = Append(trace, n)
    /\ hooked' = hooked
    /\ IF r = "ok"
       THEN data' = data /\ pc' = next
       ELSE data' = caught(data, r) /\ pc' = Return

\* a type test that does not match
SkipStep(n, next) ==
    /\ trace' = Append(trace, n)
    /\ UNCHANGED <<data, hooked>>
    /\ pc' = next

\* Rule1 without the branch for m.room.create
Rule1_nocreate ==
    /\ pc = "r1"
    /\ SkipStep(1, "r2")
    /\ UNCHANGED CheckFrame

Rule1 ==
    /\ pc = "r1"
    /\ IF event.type = "m.room.create" THEN HookStep(1) ELSE SkipStep(1, "r2")
    /\ UNCHANGED CheckFrame

Rule2 ==
    /\ pc = "r2"
    /\ RuleStep(2, check_room_auth_rule_2(event, authv), "r3")
    /\ UNCHANGED CheckFrame

Rule3 ==
    /\ pc = "r3"
    /\ RuleStep(3, check_room_auth_rule_3(data), "r4")
    /\ UNCHANGED CheckFrame

Rule4 ==
    /\ pc = "r4"
    /\ IF event.type = "m.room.aliases" THEN HookStep(4) ELSE SkipStep(4, "r5")
    /\ UNCHANGED CheckFrame

\* Rule5 without the branch for m.room.member
Rule5_nomember ==
    /\ pc = "r5"
    /\ SkipStep(5, "r6")
    /\ UNCHANGED CheckFrame

Rule5 ==
    /\ pc = "r5"
    /\ IF event.type = "m.room.member" THEN HookStep(5) ELSE SkipStep(5, "r6")
    /\ UNCHANGED CheckFrame

Rule6 ==
    /\ pc = "r6"
    /\ RuleStep(6, check_room_auth_rule_6(data), "r7")
    /\ UNCHANGED CheckFrame

Rule7 ==
    /\ pc = "r7"
    /\ IF event.type = "m.room.third_party_invite"
       THEN HookStep(7) ELSE SkipStep(7, "r8")
    /\ UNCHANGED CheckFrame

Rule8 ==
    /\ pc = "r8"
    /\ RuleStep(8, check_room_auth_rule_8(event, data), "r9")
    /\ UNCHANGED CheckFrame

Rule9 ==
    /\ pc = "r9"
    /\ RuleStep(9, check_room_auth_rule_9(event), "r10")
    /\ UNCHANGED CheckFrame

Rule10 ==
    /\ pc = "r10"
    /\ IF event.type = "m.room.power_levels"
       THEN HookStep(10) ELSE SkipStep(10, "r11")
    /\ UNCHANGED CheckFrame

Rule11 ==
    /\ pc = "r11"
    /\ IF event.type = "m.room.redaction"
       THEN HookStep(11) ELSE SkipStep(11, "r12")
    /\ UNCHANGED CheckFrame

\* the hook for the types without a branch, then "12. Otherwise, allow."
Rule12 ==
    /\ pc = "r12"
    /\ \E o \in HookOutcomes:
           LET d == room_auth_hook(data, o) IN
           /\ data' = IF o = "throw" THEN d ELSE [d EXCEPT !.allow = TRUE]
           /\ hooked' = Append(hooked, <<12, o>>)
    /\ trace' = Append(trace, 12)
    /\ pc' = Return
    /\ UNCHANGED CheckFrame

Check3 ==
    \/ Rule1 \/ Rule2 \/ Rule3 \/ Rule4 \/ Rule5 \/ Rule6
    \/ Rule7 \/ Rule8 \/ Rule9 \/ Rule10 \/ Rule11 \/ Rule12

(***************************************************************************)
(* Inputs                                                                  *)
(***************************************************************************)
CheckTypes ==
    {"m.room.create", "m.room.aliases", "m.room.member",
     "m.room.third_party_invite", "m.room.power_levels", "m.room.redaction",
     "m.room.message"}

StateKeys ==
    {<<Empty, FALSE>>, <<Empty, TRUE>>, <<UserA, TRUE>>, <<UserB, TRUE>>}

Senders == {UserA, UserB}

CheckEvents ==
    {Ev(t, k[1], k[2], s, "r1", IF t = "m.room.member" THEN "join" ELSE "") :
        t \in CheckTypes, k \in StateKeys, s \in Senders}

Injective(q) == \A i, j \in DOMAIN q: q[i] = q[j] => i = j

\* the auth sets of at most n distinct stored events, in any order
AuthSeqs(n) ==
    {q \in UNION {[1..k -> Idx] : k \in 0..n} : Injective(q)}

NoEvent == Ev("", Empty, FALSE, Empty, "", "")

passfail(d) == [allow |-> d.allow, fail |-> d.fail]

NoRet == [allow |-> FALSE, fail |-> "none"]

(***************************************************************************)
(* SpecAuth: check/3 on every event of CheckEvents and every auth set.     *)
(***************************************************************************)
\* the authorization component when no specification is running it
AuthIdle ==
    /\ event = NoEvent
    /\ authv = << >>
    /\ data = NoData
    /\ pc = "idle"
    /\ trace = << >>
    /\ hooked = << >>
    /\ pass = 0
    /\ refs = << >>
    /\ present = {}
    /\ auth = << >>
    /\ ret = NoRet
    /\ first = NoRet
    /\ pev = NoEvent
    /\ pres = FALSE

InitAuth ==
    /\ event \in CheckEvents
    /\ authv \in AuthSeqs(MaxAuth)
    /\ data = hookdata(event, authv)
    /\ pc = "r1"
    /\ trace = << >>
    /\ hooked = << >>
    /\ pass = 0
    /\ refs = << >>
    /\ present = {}
    /\ auth = << >>
    /\ ret = NoRet
    /\ first = NoRet
    /\ pev = NoEvent
    /\ pres = FALSE
    /\ AuthRestIdle

NextAuth == Check3

SpecAuth == InitAuth /\ [][NextAuth]_vars

(***************************************************************************)
(* room::auth::check(std::nothrow, event): the two calls of check/3.       *)
(***************************************************************************)
\* m::index(event_id): references are made by the index of the stored event
\* (every reference of RefSeqs names a stored event, so the lookup succeeds)
index(id) == id

\* room.get(std::nothrow, type, state_key): the present state event of the
\* event's room for (type, state_key), or 0
room_get(room, type, state_key) ==
    IF \E i \in present: /\ Stored[i].room_id = room
                         /\ Stored[i].type = type
                         /\ Stored[i].state_key = state_key
    THEN CHOOSE i \in present: /\ Stored[i].room_id = room
                               /\ Stored[i].type = type
                               /\ Stored[i].state_key = state_key
    ELSE 0

\* m::event::idx idxs[9]
idxs(ev, rf) ==
    LET count == Len(rf) IN
    << IF count > 0 THEN index(rf[1]) ELSE 0,
       IF count > 1 THEN index(rf[2]) ELSE 0,
       IF count > 2 THEN index(rf[3]) ELSE 0,
       IF count > 3 THEN index(rf[4]) ELSE 0,
       room_get(ev.room_id, "m.room.create", Empty),
       room_get(ev.room_id, "m.room.power_levels", Empty),
       room_get(ev.room_id, "m.room.member", ev.sender),
       IF ev.type = "m.room.member"
          /\ (membership(ev) = "join" \/ membership(ev) = "invite")
       THEN room_get(ev.room_id, "m.room.join_rules", Empty) ELSE 0,
       IF ev.type = "m.room.member" /\ ev.sender # ev.state_key
       THEN room_get(ev.room_id, "m.room.member", ev.state_key) ELSE 0 >>

\* for(i = from, j = 0; i < to && j < 4; ++i) if(auth[i].valid) authv[j++] = &auth[i];
RECURSIVE collect(_, _, _, _)
collect(a, i, to, acc) ==
    IF i > to \/ Len(acc) >= AuthvSize THEN acc
    ELSE collect(a, i + 1, to, IF a[i] # 0 THEN Append(acc, a[i]) ELSE acc)

\* from the entry of check/2 to the first call of check/3
Entry ==
    /\ pc = "entry"
    /\ LET a == idxs(event, refs)
           v == collect(a, 1, AuthvSize, << >>) IN
       /\ auth' = a
       /\ authv' = v
       /\ data' = hookdata(event, v)
    /\ pass' = 1
    /\ pc' = "r1"
    /\ trace' = << >>
    /\ hooked' = << >>
    /\ UNCHANGED <<event, refs, present, ret, first, pev, pres, AuthRest>>

\* Recheck that makes the second call whatever the first returned
Recheck_always ==
    /\ pc = "ret1"
    /\ first' = passfail(data)
    /\ LET v == collect(auth, AuthvSize + 1, IdxsSize, << >>) IN
       /\ authv' = v
       /\ data' = hookdata(event, v)
    /\ pass' = 2
    /\ pc' = "r1"
    /\ trace' = << >>
    /\ hooked' = << >>
    /\ ret' = passfail(data)
    /\ UNCHANGED <<event, refs, present, auth, pev, pres, AuthRest>>

\* after the first call: return its failure, or call check/3 on the present state
Recheck ==
    /\ pc = "ret1"
    /\ first' = passfail(data)
    /\ IF ~data.allow \/ data.fail # "none"
       THEN /\ ret' = passfail(data)
            /\ pc' = "done"
            /\ UNCHANGED <<authv, data, pass, trace, hooked>>
       ELSE LET v == collect(auth, AuthvSize + 1, IdxsSize, << >>) IN
            /\ authv' = v
            /\ data' = hookdata(event, v)
            /\ pass' = 2
            /\ pc' = "r1"
            /\ trace' = << >>
            /\ hooked' = << >>
            /\ ret' = passfail(data)
    /\ UNCHANGED <<event, refs, present, auth, pev, pres, AuthRest>>

\* after the second call: its passfail is the result
Finish ==
    /\ pc = "ret2"
    /\ ret' = passfail(data)
    /\ pc' = "done"
    /\ UNCHANGED <<event, authv, data, trace, hooked, pass, refs, present, auth,
                   first, pev, pres, AuthRest>>

\* events as the evaluator hands them to check/2
Check2Events ==
    {Ev("m.room.create", Empty, TRUE, s, "r1", "") : s \in Senders}
    \cup {Ev("m.room.member", k, TRUE, s, "r1", m) :
            k \in Senders, s \in Senders, m \in {"join", "invite", "leave"}}
    \cup {Ev("m.room.message", Empty, FALSE, s, "r1", "") : s \in Senders}
    \cup {Ev("m.room.power_levels", Empty, TRUE, s, "r1", "") : s \in Senders}

\* the stored events an event's auth_events may reference
RefPool == 1..6

RECURSIVE Ascending(_)
Ascending(S) ==
    IF S = {} THEN << >>
    ELSE LET m == CHOOSE x \in S: \A y \in S: x <= y IN
         <<m>> \o Ascending(S \ {m})

RECURSIVE Reverse(_)
Reverse(q) == IF q = << >> THEN << >> ELSE Append(Reverse(Tail(q)), Head(q))

\* the references: any subset of RefPool, in ascending or descending order
RefSeqs(n) ==
    LET sets == {S \in SUBSET RefPool : Cardinality(S) <= n} IN
    {Ascending(S) : S \in sets} \cup {Reverse(Ascending(S)) : S \in sets}

\* present room states: at most one event per (type, state_key)
PresentStates ==
    {{}, {1, 4}, {1, 2, 4, 6}, {1, 2, 3, 4, 6}, {1, 2, 3, 5, 6}}

InitCheck ==
    /\ event \in Check2Events
    /\ refs \in RefSeqs(MaxRefs)
    /\ present \in PresentStates
    /\ authv = << >>
    /\ data = NoData
    /\ pc = "entry"
    /\ trace = << >>
    /\ hooked = << >>
    /\ pass = 0
    /\ auth = << >>
    /\ ret = NoRet
    /\ first = NoRet
    /\ pev = NoEvent
    /\ pres = FALSE
    /\ AuthRestIdle

NextCheck == Entry \/ Check3 \/ Recheck \/ Finish

SpecCheck == InitCheck /\ [][NextCheck]_vars

(***************************************************************************)
(* room::auth::is_power_event                                              *)
(***************************************************************************)
\* is_power_event without the test sender == state_key
is_power_event_noself(e) ==
    IF e.type = "" THEN FALSE
    ELSE IF e.type = "m.room.create" THEN TRUE
    ELSE IF e.type = "m.room.power_levels" THEN TRUE
    ELSE IF e.type = "m.room.join_rules" THEN TRUE
    ELSE IF e.type # "m.room.member" THEN FALSE
    ELSE IF e.sender = Empty \/ e.state_key = Empty THEN FALSE
    ELSE IF membership(e) = "leave" \/ membership(e) = "ban" THEN TRUE
    ELSE FALSE

is_power_event(e) ==
    IF e.type = "" THEN FALSE
    ELSE IF e.type = "m.room.create" THEN TRUE
    ELSE IF e.type = "m.room.power_levels" THEN TRUE
    ELSE IF e.type = "m.room.join_rules" THEN TRUE
    ELSE IF e.type # "m.room.member" THEN FALSE
    ELSE IF e.sender = Empty \/ e.state_key = Empty THEN FALSE
    ELSE IF e.sender = e.state_key THEN FALSE
    ELSE IF membership(e) = "leave" \/ membership(e) = "ban" THEN TRUE
    ELSE FALSE

PowerTypes ==
    {"", "m.room.create", "m.room.power_levels", "m.room.join_rules",
     "m.room.member", "m.room.message"}

Memberships == {"", "join", "invite", "leave", "ban"}

PowerEvents ==
    {Ev(t, k, k # Empty, s, "r1", m) :
        t \in PowerTypes, k \in {Empty, UserA, UserB},
        s \in {Empty, UserA, UserB}, m \in Memberships}

IsPowerEvent ==
    /\ pc = "power"
    /\ pres' = is_power_event(pev)
    /\ pc' = "returned"
    /\ UNCHANGED <<event, authv, data, trace, hooked, pass, refs, present,
                   auth, ret, first, pev, AuthRest>>

InitPower ==
    /\ pev \in PowerEvents
    /\ pres = FALSE
    /\ AuthRestIdle
    /\ event = NoEvent
    /\ authv = << >>
    /\ data = NoData
    /\ pc = "power"
    /\ trace = << >>
    /\ hooked = << >>
    /\ pass = 0
    /\ refs = << >>
    /\ present = {}
    /\ auth = << >>
    /\ ret = NoRet
    /\ first = NoRet

NextPower == IsPowerEvent

SpecPower == InitPower /\ [][NextPower]_vars

(***************************************************************************)
(* Properties                                                              *)
(***************************************************************************)
Rule2Fails == {"2a", "2b", "2c"}

\* rule n has been evaluated by the running check/3
Evaluated(n) == \E i \in DOMAIN trace: trace[i] = n

\* the rule a failure belongs to (a hook failure: the rule that called the hook)
FailRule ==
    CASE data.fail \in Rule2Fails -> 2
      [] data.fail = "3" -> 3
      [] data.fail = "6" -> 6
      [] data.fail = "8" -> 8
      [] data.fail = "9" -> 9
      [] data.fail = "hook" -> hooked[Len(hooked)][1]
      [] OTHER -> 0

\* the outcome of rule n on the inputs of the call, for the rules that are checks
RuleResult(n) ==
    CASE n = 2 -> check_room_auth_rule_2(event, authv)
      [] n = 3 -> check_room_auth_rule_3(data)
      [] n = 6 -> check_room_auth_rule_6(data)
      [] n = 8 -> check_room_auth_rule_8(event, data)
      [] n = 9 -> check_room_auth_rule_9(event)
      [] OTHER -> "ok"

\* the type whose hook a numbered step calls
HookType(n) ==
    CASE n = 1 -> "m.room.create"
      [] n = 4 -> "m.room.aliases"
      [] n = 5 -> "m.room.member"
      [] n = 7 -> "m.room.third_party_invite"
      [] n = 10 -> "m.room.power_levels"
      [] n = 11 -> "m.room.redaction"
      [] OTHER -> ""

HasDuplicate(av) ==
    \E i, j \in DOMAIN av:
        /\ i # j
        /\ Stored[av[i]].type = Stored[av[j]].type
        /\ Stored[av[i]].state_key = Stored[av[j]].state_key

HasOtherRoom(ev, av) == \E i \in DOMAIN av: Stored[av[i]].room_id # ev.room_id

HasCreate(av) == \E i \in DOMAIN av: Stored[av[i]].type = "m.room.create"

\* C1: for a non-create event the steps are taken in the order 1, 2, ..., 12;
\* every step before the last one passed and called no hook; a failure ends
\* the check at once and is the failure of the step taken last.
C1_RuleOrder ==
    event.type # "m.room.create" =>
        /\ \A i \in DOMAIN trace: trace[i] = i
        /\ Len(trace) <= 12
        /\ \A i \in DOMAIN trace:
               i < Len(trace) => /\ RuleResult(i) = "ok"
                                 /\ event.type # HookType(i)
        /\ \A i \in DOMAIN hooked: hooked[i][1] = Len(trace)
        /\ Len(hooked) <= 1
        /\ data.fail # "none" =>
               /\ pc = "done"
               /\ ~data.allow
               /\ FailRule = Len(trace)
        /\ (trace # << >> /\ RuleResult(Len(trace)) # "ok") =>
               data.fail = RuleResult(Len(trace))

\* C1 witness: rule 8 rejects an event that rule 9 would reject as well
C1_Witness ==
    /\ pc = "done"
    /\ event.type # "m.room.create"
    /\ data.fail = "8"
    /\ trace = <<1, 2, 3, 4, 5, 6, 7, 8>>
    /\ check_room_auth_rule_9(event) = "9"

\* C2: the first call is made on events the auth_events reference, the second
\* on events of the present state and only after the first call passed; the
\* result allows only if both calls allowed, and a failure of the first call
\* is returned as it is without a second call.
C2_TwoPasses ==
    /\ pass = 1 => \A i \in DOMAIN authv:
                       \E k \in DOMAIN refs: index(refs[k]) = authv[i]
    /\ pass = 2 => /\ first.allow
                   /\ first.fail = "none"
                   /\ \A i \in DOMAIN authv: authv[i] \in present
    /\ pc = "done" =>
           /\ ret.allow => (first.allow /\ pass = 2 /\ data.allow)
           /\ ~first.allow => (pass = 1 /\ ret = first)
           /\ pass = 2 => ret = passfail(data)

\* C2 witness: the first call passes and the call on the present state fails
C2_Witness ==
    /\ pc = "done"
    /\ pass = 2
    /\ first.allow
    /\ ~ret.allow
    /\ ret.fail = "6"

\* the auth selectors the claim C3 allows for an event
AllowedSelector(ev, a) ==
    \/ a.type \in {"m.room.create", "m.room.power_levels", "m.room.join_rules",
                   "m.room.third_party_invite"}
    \/ a.type = "m.room.member" /\ a.state_key = ev.sender
    \/ a.type = "m.room.member" /\ a.state_key = ev.state_key

\* C3: rule 2 rejects exactly the auth sets that hold a duplicate, an event of
\* another room or an entry that is no allowed selector (create, power_levels,
\* join_rules, member of sender, member of target, third_party_invite).
C3_Rule2Selectors ==
    (event.type # "m.room.create" /\ Evaluated(2)) =>
        (data.fail \in Rule2Fails <=>
            \/ HasDuplicate(authv)
            \/ HasOtherRoom(event, authv)
            \/ \E i \in DOMAIN authv: ~AllowedSelector(event, Stored[authv[i]]))

\* membership of the sender according to the auth set ("" when it has none)
SenderMembership(ev, av) ==
    IF \E i \in DOMAIN av: /\ Stored[av[i]].type = "m.room.member"
                           /\ Stored[av[i]].state_key = ev.sender
    THEN membership(Stored[CHOOSE i \in Idx:
            /\ \E k \in DOMAIN av: av[k] = i
            /\ Stored[i].type = "m.room.member"
            /\ Stored[i].state_key = ev.sender])
    ELSE ""

\* C4: an event of a type other than create, aliases, member that passed
\* rules 2 and 3 is not allowed unless the sender's membership in the auth
\* set is join.
C4_Rule6SenderJoined ==
    ( /\ pc = "done"
      /\ event.type \notin {"m.room.create", "m.room.aliases", "m.room.member"}
      /\ Evaluated(3)
      /\ data.fail \notin Rule2Fails \cup {"3"}
      /\ SenderMembership(event, authv) # "join" )
    => ~data.allow

\* C5: with a duplicate (type, state_key) in the auth set of a non-create
\* event, rule 2 rejects and it is the last rule evaluated.
C5_Rule2Duplicate ==
    (event.type # "m.room.create" /\ HasDuplicate(authv) /\ Evaluated(2)) =>
        /\ data.fail \in Rule2Fails
        /\ ~data.allow
        /\ trace = <<1, 2>>
        /\ hooked = << >>
        /\ pc = "done"

\* C5 witness: two member events of the sender, no create: rejected at 2(a)
C5_Witness ==
    /\ pc = "done"
    /\ event.type # "m.room.create"
    /\ data.fail = "2a"
    /\ ~HasCreate(authv)
    /\ \E i, j \in DOMAIN authv:
           /\ i # j
           /\ Stored[authv[i]].type = "m.room.member"
           /\ Stored[authv[j]].type = "m.room.member"
           /\ Stored[authv[i]].state_key = Stored[authv[j]].state_key

\* C6: with an event of another room in the auth set of a non-create event,
\* the check rejects (at rule 2).
C6_Rule2OtherRoom ==
    (event.type # "m.room.create" /\ HasOtherRoom(event, authv) /\ Evaluated(2)) =>
        /\ data.fail \in Rule2Fails
        /\ ~data.allow
        /\ pc = "done"

\* C6 witness: rejected for the room of an auth event, nothing else being wrong
C6_Witness ==
    /\ pc = "done"
    /\ event.type # "m.room.create"
    /\ data.fail = "2b"
    /\ ~HasDuplicate(authv)

\* C7: once rule 2 has passed, rule 3 rejects exactly when the auth set holds
\* no m.room.create.
C7_Rule3Create ==
    (event.type # "m.room.create" /\ Evaluated(3)) =>
        (data.fail = "3" <=> ~HasCreate(authv))

\* C7 witness: a well-formed auth set without create is rejected by rule 3
C7_Witness ==
    /\ pc = "done"
    /\ data.fail = "3"
    /\ authv # << >>
    /\ trace = <<1, 2, 3>>

\* C8: an event that reaches rule 9 with a state_key beginning with '@' is
\* rejected by rule 9 exactly when the state_key is not the sender.
C8_Rule9StateKey ==
    (Evaluated(9) /\ startswith(event.state_key, "@")) =>
        /\ data.fail = "9" <=> event.state_key # event.sender
        /\ data.fail = "9" => (pc = "done" /\ ~data.allow)

\* C8 witness: a state_key naming another user is rejected at rule 9
C8_Witness ==
    /\ pc = "done"
    /\ data.fail = "9"
    /\ trace = <<1, 2, 3, 4, 5, 6, 7, 8, 9>>
    /\ startswith(event.state_key, "@")

\* what the hook's outcome alone makes of a fresh hookdata
HookResult(o) ==
    [allow |-> (o = "allow"), fail |-> IF o = "throw" THEN "hook" ELSE "none"]

\* C9: for m.room.create the only step is the hook of step 1, whatever the
\* auth set, and the result is the hook's outcome.
C9_CreateOnlyHook ==
    event.type = "m.room.create" =>
        /\ \A i \in DOMAIN trace: trace[i] = 1
        /\ Len(trace) <= 1
        /\ pc = "done" =>
               /\ trace = <<1>>
               /\ Len(hooked) = 1
               /\ hooked[1][1] = 1
               /\ passfail(data) = HookResult(hooked[1][2])

\* C9 witness: a create event allowed with a duplicate from another room
C9_Witness ==
    /\ pc = "done"
    /\ event.type = "m.room.create"
    /\ data.allow
    /\ HasDuplicate(authv)
    /\ HasOtherRoom(event, authv)

\* C10 as stated: true exactly for create, power_levels, join_rules and for
\* member events with membership leave or ban whose sender differs from the
\* state_key.
C10_PowerEventStated ==
    pc = "returned" =>
        (pres <=>
            \/ pev.type \in {"m.room.create", "m.room.power_levels", "m.room.join_rules"}
            \/ /\ pev.type = "m.room.member"
               /\ membership(pev) \in {"leave", "ban"}
               /\ pev.sender # pev.state_key)

\* C10 amended: as stated, the member case requiring moreover that sender and
\* state_key are both present (non-empty).
C10_PowerEvent ==
    pc = "returned" =>
        (pres <=>
            \/ pev.type \in {"m.room.create", "m.room.power_levels", "m.room.join_rules"}
            \/ /\ pev.type = "m.room.member"
               /\ membership(pev) \in {"leave", "ban"}
               /\ pev.sender # Empty
               /\ pev.state_key # Empty
               /\ pev.sender # pev.state_key)

\* C10 witness: a ban of another user is a power event
C10_Witness ==
    /\ pc = "returned"
    /\ pres
    /\ pev.type = "m.room.member"
    /\ membership(pev) = "ban"
    /\ pev.sender # pev.state_key

(***************************************************************************)
(* room::auth::chain::for_each(const auth::chain &, const closure_bool &)  *)
(***************************************************************************)
\* `i < 4` of the loop over the auth_events of a fetched event
ChainFanout == 4

\* variant of chain_scan: a reference is queued whether or not it is in ae
RECURSIVE chain_scan_noset(_, _, _, _, _)
chain_scan_noset(rf, i, n, s, q) ==
    IF i > n THEN <<s, q>>
    ELSE LET auth_event_idx == index(rf[i]) IN
         IF auth_event_idx = 0
         THEN chain_scan_noset(rf, i + 1, n, s, q)
         ELSE chain_scan_noset(rf, i + 1, n, s \cup {auth_event_idx},
                         IF auth_event_idx \in cfetch
                         THEN Append(q, auth_event_idx) ELSE q)

\* the body of `for(size_t i(0); i < count && i < 4; ++i)`: the references
\* rf[i..n] are looked up, those not yet in ae are added to it and, when their
\* event can be fetched, queued; yields <<ae, aq>>
RECURSIVE chain_scan(_, _, _, _, _)
chain_scan(rf, i, n, s, q) ==
    IF i > n THEN <<s, q>>
    ELSE LET auth_event_idx == index(rf[i]) IN
         IF auth_event_idx = 0 \/ auth_event_idx \in s
         THEN chain_scan(rf, i + 1, n, s, q)
         ELSE chain_scan(rf, i + 1, n, s \cup {auth_event_idx},
                         IF auth_event_idx \in cfetch
                         THEN Append(q, auth_event_idx) ELSE q)

\* one iteration of the do-while loop, with its test `while(!aq.empty())`
ChainPop ==
    /\ cpc = "loop"
    /\ LET idx == Head(aq)
           q == Tail(aq)
           count == IF Len(cg[idx]) < ChainFanout THEN Len(cg[idx]) ELSE ChainFanout
           r == IF idx \in cfetch
                THEN chain_scan(cg[idx], 1, count, ae, q)
                ELSE <<ae, q>>
       IN /\ ae' = r[1]
          /\ aq' = r[2]
          /\ queued' = queued \o SubSeq(r[2], Len(q) + 1, Len(r[2]))
          /\ IF r[2] = << >>
             THEN cpc' = "visit" /\ todo' = r[1]
             ELSE cpc' = "loop" /\ todo' = todo
    /\ UNCHANGED <<cg, cfetch, cstart, called, cret, ChainRest>>

\* one iteration of `for(const auto &idx : ae) if(!closure(idx)) return false;`
ChainClosure ==
    /\ cpc = "visit"
    /\ todo # {}
    /\ LET idx == CHOOSE x \in todo: \A y \in todo: x <= y IN
       /\ called' = Append(called, idx)
       /\ \E r \in BOOLEAN:
              IF r
              THEN todo' = todo \ {idx} /\ cret' = cret /\ cpc' = cpc
              ELSE todo' = todo /\ cret' = FALSE /\ cpc' = "done"
    /\ UNCHANGED <<cg, cfetch, cstart, aq, ae, queued, ChainRest>>

\* the final `return true`
ChainReturn ==
    /\ cpc = "visit"
    /\ todo = {}
    /\ cret' = TRUE
    /\ cpc' = "done"
    /\ UNCHANGED <<cg, cfetch, cstart, aq, ae, todo, called, queued, ChainRest>>

\* the reference lists of at most n entries over the ids S
RefLists(S, n) == UNION {[1..k -> S] : k \in 0..n}

\* the stored events and their auth_events: the references of the first
\* event are arbitrary, the two others close cycles or end the chain
ChainGraphs ==
    {<<a, b, c>> : a \in RefLists({0, 2, 3}, MaxChainRefs),
                   b \in {<< >>, <<3>>, <<1>>, <<0, 3>>},
                   c \in {<< >>, <<2>>, <<3>>}}

\* the components chain::for_each does not use
ChainRestIdle == AuthIdle /\ SeekIdle /\ WriteIdle /\ CellIdle /\ InsertIdle /\ StatusIdle /\ OpenIdle /\ GenIdle /\ ConsoleIdle /\ VmIdle /\ HasIdle /\ MemberIdle /\ FedsIdle /\ RowIdle /\ CasIdle /\ IterIdle

InitChain ==
    /\ cg \in ChainGraphs
    /\ cfetch \in {{1, 2, 3}, {1, 2}}
    /\ cstart = 1
    /\ cpc = "loop"
    /\ aq = <<cstart>>
    /\ queued = <<cstart>>
    /\ ae = {}
    /\ todo = {}
    /\ called = << >>
    /\ cret = TRUE
    /\ ChainRestIdle

NextChain == ChainPop \/ ChainClosure \/ ChainReturn

SpecChain == InitChain /\ [][NextChain]_vars

\* the context that runs for_each is scheduled until it returns
SpecChainFair == SpecChain /\ WF_vars(NextChain)

\* the local events an event references
ChainRefs(i) == {index(cg[i][k]) : k \in DOMAIN cg[i]} \ {0}

\* the local events referenced by the fetchable events of S
ChainStep(S) == UNION {ChainRefs(i) : i \in S \cap cfetch}

RECURSIVE ChainClose(_)
ChainClose(S) ==
    LET T == S \cup ChainStep(S) IN IF T = S THEN S ELSE ChainClose(T)

\* the transitive closure of auth_events from the start event
AuthChain == ChainClose(ChainStep({cstart}))

CalledSet == {called[k] : k \in DOMAIN called}

\* C11: the closure is called once for each local event of the transitive
\* closure of auth_events from the start, and for no other; a closure
\* returning false ends the enumeration, which then returns false.
C11_ChainEnumerates ==
    /\ CalledSet \subseteq AuthChain
    /\ \A i, j \in DOMAIN called: called[i] = called[j] => i = j
    /\ ~cret => cpc = "done"
    /\ (cpc = "done" /\ cret) => CalledSet = AuthChain

(***************************************************************************)
(* db::seek(database::column &, const pos &, rocksdb::ReadOptions &,       *)
(*          std::unique_ptr<rocksdb::Iterator> &)                          *)
(*                                                                         *)
(* An iterator is [st, key]: "null" is the empty unique_ptr, "fresh" an    *)
(* iterator not yet positioned, "ok" Valid() at key, "end" not Valid()     *)
(* with status ok, "incomplete" not Valid() with status Incomplete,        *)
(* "stale" Valid() at the key held before with status Incomplete, and      *)
(* "empty" the iterator made by rocksdb::NewErrorIterator.                 *)
(***************************************************************************)
Keys == 1..MaxKey

It(st, k) == [st |-> st, key |-> k]

\* db::valid(const rocksdb::Iterator &)
valid(it) == it.st \in {"ok", "stale"}

IsIncomplete(it) == it.st \in {"incomplete", "stale"}

\* the seek arguments: a key, or a db::pos
Pos(kind, k) == [kind |-> kind, key |-> k]

\* the least key of db not below k, 0 if none
lower(db, k) ==
    IF \E x \in db: x >= k
    THEN CHOOSE x \in db: x >= k /\ \A y \in db: y >= k => x <= y
    ELSE 0

\* the greatest key of db not above k, 0 if none
upper(db, k) ==
    IF \E x \in db: x <= k
    THEN CHOOSE x \in db: x <= k /\ \A y \in db: y <= k => y <= x
    ELSE 0

\* _seek_(it, p): the key rocksdb moves a positioned iterator to, 0 if none
_seek_(db, it, p) ==
    CASE p.kind = "key" -> lower(db, p.key)
      [] p.kind = "NEXT" -> lower(db, it.key + 1)
      [] p.kind = "PREV" -> IF it.key = 0 THEN 0 ELSE upper(db, it.key - 1)
      [] p.kind = "FRONT" -> lower(db, 1)
      [] p.kind = "BACK" -> upper(db, MaxKey)

\* the iterator an ended move leaves
at(k) == IF k = 0 THEN It("end", 0) ELSE It("ok", k)

\* _seek_ on an iterator of the non-blocking tier: the move completes when
\* the block it needs is cached; otherwise the status is Incomplete, and the
\* iterator is either not valid or, with releases of the library that keep
\* the position, still valid at the key it held
nonblocking(db, cache, it, p) ==
    IF it.st = "empty" THEN {it}
    ELSE LET k == _seek_(db, it, p) IN
         IF k \in cache THEN {at(k)}
         ELSE {It("incomplete", 0)} \cup
              (IF it.st = "ok" THEN {It("stale", it.key)} ELSE {})

\* the body of ctx::offload: the moves of the blocking iterator.  Next() and
\* Prev() of an iterator that was never positioned are undefined: any
\* position is a possible outcome
blocking(db, it, p) ==
    LET b == IF valid(it) THEN at(lower(db, it.key)) ELSE It("fresh", 0) IN
    IF valid(it) /\ ~valid(b) THEN {b}
    ELSE IF p.kind \in {"NEXT", "PREV"} /\ ~valid(b)
         THEN {It("end", 0)} \cup {It("ok", k) : k \in db}
         ELSE {at(_seek_(db, b, p))}

\* variant of fill_cache: blocking_opts.fill_cache left false
fill_cache_off(cache, it, b) == cache

\* blocking_opts.fill_cache = true: the blocks the blocking iterator read
fill_cache(cache, it, b) ==
    cache \cup {b.key} \cup (IF valid(it) THEN {it.key} ELSE {})

\* a caller of seek(): lower_bound() and find() with a new iterator,
\* operator++ / operator-- and the seeks of cells and rows with theirs
SeekCall ==
    /\ spc = "idle"
    /\ \E p \in {Pos("key", k) : k \in Keys}
                \cup {Pos(d, 0) : d \in {"NEXT", "PREV", "FRONT", "BACK"}}:
       \E new \in BOOLEAN:
          /\ p.kind \in {"NEXT", "PREV"} => (~new /\ sit.st = "ok")
          /\ sit' = IF new THEN It("null", 0) ELSE sit
          /\ sp' = p
          /\ sorig' = p
          /\ sheld' = IF new \/ sit.st # "ok" THEN 0 ELSE sit.key
    /\ spc' = "query"
    /\ soff' = 0
    /\ sfound' = 0
    /\ UNCHANGED <<sdb, scache, sret, sdisp, SeekRest>>

\* seek() from its entry to the test of it->status().IsIncomplete()
SeekQuery ==
    /\ spc = "query"
    /\ LET it == IF sit.st = "null" THEN It("fresh", 0) ELSE sit IN
       \E r \in nonblocking(sdb, scache, it, sp):
          /\ sit' = r
          /\ IF ~IsIncomplete(r)
             THEN sret' = valid(r) /\ spc' = "idle"
             ELSE sret' = sret /\ spc' = "offload"
    /\ UNCHANGED <<sdb, scache, sp, sorig, sheld, soff, sdisp, sfound, SeekRest>>

\* the greatest number of offloads the history counts
MaxOffloads == MaxDisplace + 2

\* seek() from the creation of the blocking iterator to its return or to
\* the call of seek(c, blocking_it->key(), opts, it)
SeekOffload ==
    /\ spc = "offload"
    /\ \E b \in blocking(sdb, sit, sp):
          /\ scache' = fill_cache(scache, sit, b)
          /\ sfound' = b.key
          /\ IF ~valid(b)
             THEN /\ sit' = It("empty", 0)
                  /\ sret' = FALSE
                  /\ spc' = "idle"
                  /\ sp' = sp
             ELSE /\ sit' = It("null", 0)
                  /\ sret' = sret
                  /\ spc' = "query"
                  /\ sp' = Pos("key", b.key)
    /\ soff' = IF soff < MaxOffloads THEN soff + 1 ELSE soff
    /\ UNCHANGED <<sdb, sorig, sheld, sdisp, SeekRest>>

\* another context's reads displace a block from the cache
Displace ==
    /\ spc \in {"idle", "query", "offload"}
    /\ sdisp < MaxDisplace
    /\ \E k \in scache: scache' = scache \ {k}
    /\ sdisp' = sdisp + 1
    /\ UNCHANGED <<sdb, sit, sp, spc, sret, sorig, sheld, soff, sfound, SeekRest>>

\* the components seek() does not use
SeekRestIdle == AuthIdle /\ ChainIdle /\ WriteIdle /\ CellIdle /\ InsertIdle /\ StatusIdle /\ OpenIdle /\ GenIdle /\ ConsoleIdle /\ VmIdle /\ HasIdle /\ MemberIdle /\ FedsIdle /\ RowIdle /\ CasIdle /\ IterIdle

InitSeek ==
    /\ sdb \in SUBSET Keys
    /\ scache \in SUBSET (sdb \cup {0})
    /\ sit = It("null", 0)
    /\ sp = Pos("none", 0)
    /\ spc = "idle"
    /\ sret = FALSE
    /\ sorig = Pos("none", 0)
    /\ sheld = 0
    /\ soff = 0
    /\ sdisp = 0
    /\ sfound = 0
    /\ SeekRestIdle

NextSeek == SeekCall \/ SeekQuery \/ SeekOffload \/ Displace

SpecSeek == InitSeek /\ [][NextSeek]_vars

\* the offloaded work and the context it resumes are always scheduled
SpecSeekFair == SpecSeek /\ WF_vars(SeekQuery) /\ WF_vars(SeekOffload)

\* the caller's seek() has returned
SeekReturned == spc = "idle" /\ sorig.kind # "none"

\* C12: a seek to a key returns true with the iterator at the least stored
\* key not below the sought key, or false when there is none, whether or not
\* the non-blocking query was incomplete.
C12_SeekLowerBound ==
    (SeekReturned /\ sorig.kind = "key") =>
        LET k == lower(sdb, sorig.key) IN
        /\ sret <=> k # 0
        /\ sret => sit = It("ok", k)

\* C13: a NEXT or PREV that meets a cache miss leaves the iterator at the
\* successor or predecessor of the key it held, as with every block cached.
C13_RelativeMove ==
    (SeekReturned /\ sorig.kind \in {"NEXT", "PREV"}) =>
        LET k == IF sorig.kind = "NEXT" THEN lower(sdb, sheld + 1)
                 ELSE upper(sdb, sheld - 1) IN
        /\ sret <=> k # 0
        /\ sret => sit = It("ok", k)

\* C14: a re-entered seek() is a seek to the key the blocking iterator found,
\* with a new iterator; every offload after the first follows a displacement,
\* and with finitely many displacements every seek() that offloads returns.
C14_OffloadsEnd ==
    /\ []((spc = "query" /\ soff > 0) =>
            /\ sp = Pos("key", sfound)
            /\ sfound \in sdb
            /\ sit = It("null", 0))
    /\ [](soff <= sdisp + 1)
    /\ ((spc = "offload") ~> (spc = "idle"))

\* a seek() returned true after the re-seating seek missed and offloaded again
C14_Witness == SeekReturned /\ sret /\ soff >= 2

(***************************************************************************)
(* db::write(const cell::delta *, const cell::delta *, const sopts &),      *)
(* column::operator()(const delta *, const delta *, const sopts &),         *)
(* db::write(column &, key, val), db::write(column &, key, buf, size) and   *)
(* db::read(column &, key).  Keys and values are byte strings, written as   *)
(* numbers: the key k has the bytes of the value k.                        *)
(***************************************************************************)
\* the cells (column and key) of the database
DbKeys == {1, 2}

\* the values written; 0 is the absence of a value
Vals == {1, 2}

Delta(o, k, v) == [op |-> o, key |-> k, val |-> v]

Deltas == {Delta("SET", k, v) : k \in DbKeys, v \in Vals}
              \cup {Delta("DELETE", k, 0) : k \in DbKeys}

DeltaLists == UNION {[1..n -> Deltas] : n \in 0..MaxDeltas}

\* the effect of one entry of a WriteBatch on the database
put(st, d) ==
    CASE d.op = "SET" -> [st EXCEPT ![d.key] = d.val]
      [] d.op = "DELETE" -> [st EXCEPT ![d.key] = 0]

\* d.d->Write(opts, &batch): the entries of the batch applied in order
RECURSIVE Write(_, _)
Write(st, batch) ==
    IF batch = << >> THEN st ELSE Write(put(st, Head(batch)), Tail(batch))

\* the entry of a batch write; the write of cell deltas returns at once when
\* begin == end.  A behaviour follows one batch write, from any database
WriteBegin ==
    /\ wpc = "idle"
    /\ wkind = "none"
    /\ \E kind \in {"cells", "column"}, ds \in DeltaLists:
          /\ wkind' = kind
          /\ wdeltas' = ds
          /\ wpc' = IF kind = "cells" /\ ds = << >> THEN "idle" ELSE "append"
    /\ wbatch' = << >>
    /\ wpre' = store
    /\ snapw' = FALSE
    /\ wk' = 0
    /\ rdk' = 0
    /\ UNCHANGED <<store, snap, wv, rdv, WriteRest>>

\* variant of WriteAppend: the delta is written to the database at once
WriteAppend_direct ==
    /\ wpc = "append"
    /\ Len(wbatch) < Len(wdeltas)
    /\ wbatch' = Append(wbatch, wdeltas[Len(wbatch) + 1])
    /\ store' = put(store, wdeltas[Len(wbatch) + 1])
    /\ UNCHANGED <<wkind, wdeltas, wpc, wpre, snap, snapw, wk, wv, rdk, rdv,
                   WriteRest>>

\* append(batch, delta) of the std::for_each over the deltas
WriteAppend ==
    /\ wpc = "append"
    /\ Len(wbatch) < Len(wdeltas)
    /\ wbatch' = Append(wbatch, wdeltas[Len(wbatch) + 1])
    /\ UNCHANGED <<store, wkind, wdeltas, wpc, wpre, snap, snapw, wk, wv, rdk, rdv,
                   WriteRest>>

\* throw_on_error { d.d->Write(opts, &batch) }: the batch is written, or
\* the write fails and throws
WriteCommit ==
    /\ wpc = "append"
    /\ Len(wbatch) = Len(wdeltas)
    /\ \E ok \in BOOLEAN:
          /\ store' = IF ok THEN Write(store, wbatch) ELSE store
          /\ wpc' = IF ok THEN "idle" ELSE "failed"
    /\ UNCHANGED <<wkind, wdeltas, wbatch, wpre, snap, snapw, wk, wv, rdk, rdv,
                   WriteRest>>

\* the caller of a failed write has caught the exception
WriteCaught ==
    /\ wpc = "failed"
    /\ wpc' = "idle"
    /\ UNCHANGED <<store, wkind, wdeltas, wbatch, wpre, snap, snapw, wk, wv, rdk,
                   rdv, WriteRest>>

\* database::snapshot::snapshot(database &) in a reader
Snapshot ==
    /\ wpc \in {"idle", "append", "failed"}
    /\ snap' = store
    /\ snapw' = (wkind # "none")
    /\ UNCHANGED <<store, wkind, wdeltas, wbatch, wpc, wpre, wk, wv, rdk, rdv,
                   WriteRest>>

\* write(column, key, val, sopts)
WriteVal(k, v) ==
    /\ wpc = "idle"
    /\ store' = [store EXCEPT ![k] = v]
    /\ wk' = k
    /\ wv' = v
    /\ wkind' = "none"
    /\ rdk' = 0
    /\ UNCHANGED <<wdeltas, wbatch, wpc, wpre, snap, snapw, rdv, WriteRest>>

\* write(column, key, buf, size, sopts): `write(column, key, key, sopts)`
WriteBuf(k, v) ==
    /\ wpc = "idle"
    /\ store' = [store EXCEPT ![k] = k]
    /\ wk' = k
    /\ wv' = v
    /\ wkind' = "none"
    /\ rdk' = 0
    /\ UNCHANGED <<wdeltas, wbatch, wpc, wpre, snap, snapw, rdv, WriteRest>>

\* read(column, key, gopts) of a key that has a value
Read(k) ==
    /\ wpc = "idle"
    /\ store[k] # 0
    /\ rdk' = k
    /\ rdv' = store[k]
    /\ UNCHANGED <<store, wkind, wdeltas, wbatch, wpc, wpre, snap, snapw, wk, wv,
                   WriteRest>>

\* the components the writes do not use
WriteRestIdle == AuthIdle /\ ChainIdle /\ SeekIdle /\ CellIdle /\ InsertIdle /\ StatusIdle /\ OpenIdle /\ GenIdle /\ ConsoleIdle /\ VmIdle /\ HasIdle /\ MemberIdle /\ FedsIdle /\ RowIdle /\ CasIdle /\ IterIdle

InitWrite ==
    /\ store \in [DbKeys -> Vals \cup {0}]
    /\ wkind = "none"
    /\ wdeltas = << >>
    /\ wbatch = << >>
    /\ wpc = "idle"
    /\ wpre = store
    /\ snap = store
    /\ snapw = FALSE
    /\ wk = 0
    /\ wv = 0
    /\ rdk = 0
    /\ rdv = 0
    /\ WriteRestIdle

\* the batch writes and the readers' snapshots
NextBatch ==
    \/ WriteBegin
    \/ WriteAppend
    \/ WriteCommit
    \/ WriteCaught
    \/ Snapshot

SpecBatch == InitWrite /\ [][NextBatch]_vars

\* the writes and reads of one key
NextWrite ==
    \/ \E k \in DbKeys, v \in Vals: WriteVal(k, v)
    \/ \E k \in DbKeys, v \in Vals: WriteBuf(k, v)
    \/ \E k \in DbKeys: Read(k)

SpecWrite == InitWrite /\ [][NextWrite]_vars

\* the database after every delta of the batch write
WritePost == Write(wpre, wdeltas)

\* C15: the deltas of one write are committed as one batch: the database, and
\* every snapshot taken since the write began, has all of them or none.
C15_BatchAtomic ==
    wkind # "none" =>
        /\ store \in {wpre, WritePost}
        /\ snapw => snap \in {wpre, WritePost}
        /\ wpc \in {"append", "failed"} => store = wpre

\* a batch of two deltas that change two cells is committed, and seen whole
\* by a snapshot taken since the write began
C15_Witness ==
    /\ wkind # "none"
    /\ wpc = "idle"
    /\ Len(wdeltas) >= 2
    /\ \A k \in DbKeys: WritePost[k] # wpre[k]
    /\ store = WritePost
    /\ snapw /\ snap = WritePost

\* C17: after write(column, key, value), in the string overload and in the
\* overload of a buffer and its size, a read of the key returns the bytes
\* that were passed.
C17_WriteRead == (rdk # 0 /\ rdk = wk) => rdv = wv

(***************************************************************************)
(* db::cell and db::row with a snapshot: the constructors, cell::load(),   *)
(* cell::val().  The model follows the key of one cell.  An iterator is    *)
(* [st, view]: "null" the empty unique_ptr, "pos" an iterator positioned   *)
(* by Seek(index), "empty" the iterator made by NewErrorIterator; view is  *)
(* the value of the key in the view the iterator was created with, the     *)
(* snapshot of its ReadOptions or else the database at its creation.       *)
(***************************************************************************)
CIt(st, v) == [st |-> st, view |-> v]

\* cell::valid(): it && valid_equal(*it, index)
cell_valid(it) == it.st = "pos" /\ it.view # 0

\* seek(c, index, opts, it) of a cell: `snapshot` tells whether opts holds
\* the snapshot whose view of the key is `ss`; `live` is the database; the
\* outcomes are those of a cache hit and of a cache miss
cell_seek(it, snapshot, ss, live) ==
    LET view == IF snapshot THEN ss ELSE live
        i == IF it.st = "null" THEN CIt("pos", view) ELSE it
    IN IF i.st = "empty" THEN {i}
       ELSE {CIt("pos", i.view),
             IF view = 0 THEN CIt("empty", 0) ELSE CIt("pos", view)}

\* cell::load(gopts opts) with the default opts, which hold no snapshot
cell_load(it, ss, live, changed) ==
    IF cell_valid(it) /\ ~changed THEN {it}
    ELSE cell_seek(it, FALSE, ss, live)

\* another context writes or deletes the key
CellWrite ==
    /\ \E v \in Vals \cup {0}: v # cdb /\ cdb' = v
    /\ cnew' = TRUE
    /\ UNCHANGED <<chas, css, cit, cdone, cread, CellRest>>

\* cell::cell(column, index, opts) with opts.snapshot a new snapshot
CellOpen ==
    /\ chas' = TRUE
    /\ css' = cdb
    /\ cnew' = FALSE
    /\ cit' \in cell_seek(CIt("null", 0), TRUE, cdb, cdb)
    /\ cdone' = FALSE
    /\ UNCHANGED <<cdb, cread, CellRest>>

\* row::row(d, key, colnames, opts): the snapshot, the iterators, the cells,
\* seek(*this, key) and the trimmer, which calls cell.key()
RowOpen ==
    /\ chas' = TRUE
    /\ css' = cdb
    /\ cnew' = FALSE
    /\ \E i \in cell_seek(CIt("pos", cdb), TRUE, cdb, cdb):
       \E j \in (IF cell_valid(i) THEN {i} ELSE cell_load(i, cdb, cdb, FALSE)):
          cit' = IF cell_valid(j) THEN j ELSE CIt("null", 0)
    /\ cdone' = FALSE
    /\ UNCHANGED <<cdb, cread, CellRest>>

\* cell::load() called by the user of the cell
CellLoad ==
    /\ chas
    /\ cit' \in cell_load(cit, css, cdb, cnew)
    /\ cdone' = FALSE
    /\ UNCHANGED <<cdb, chas, css, cnew, cread, CellRest>>

\* cell::val(): `if(!valid()) load(); return valid()? val(*it) : string_view{}`
CellVal ==
    /\ chas
    /\ \E i \in (IF cell_valid(cit) THEN {cit} ELSE cell_load(cit, css, cdb, cnew)):
          /\ cit' = i
          /\ cread' = IF cell_valid(i) THEN i.view ELSE 0
    /\ cdone' = TRUE
    /\ UNCHANGED <<cdb, chas, css, cnew, CellRest>>

\* the components the cells do not use
CellRestIdle == AuthIdle /\ ChainIdle /\ SeekIdle /\ WriteIdle /\ InsertIdle /\ StatusIdle /\ OpenIdle /\ GenIdle /\ ConsoleIdle /\ VmIdle /\ HasIdle /\ MemberIdle /\ FedsIdle /\ RowIdle /\ CasIdle /\ IterIdle

InitCell ==
    /\ cdb \in Vals \cup {0}
    /\ chas = FALSE
    /\ css = 0
    /\ cnew = FALSE
    /\ cit = CIt("null", 0)
    /\ cdone = FALSE
    /\ cread = 0
    /\ CellRestIdle

NextCell == CellWrite \/ CellOpen \/ RowOpen \/ CellLoad \/ CellVal

SpecCell == InitCell /\ [][NextCell]_vars

\* C16: a read through a cell or row that holds a snapshot returns the value
\* the key had at the snapshot, whatever was written later and also after
\* the cell was reloaded.
C16_SnapshotRead == cdone => cread = css

(***************************************************************************)
(* m::event::insert(json::iov &), m::append_indexes and the indexers.      *)
(* A cell of the events database is [col, key, val].                       *)
(***************************************************************************)
Iov(id, t, sk, snd, room) ==
    [event_id |-> id, type |-> t, state_key |-> sk, sender |-> snd,
     room_id |-> room, origin_server_ts |-> Empty]

\* the iovs given to event::insert: with and without event_id, one of
\* another room, one without type and one without sender
InsertInputs ==
    {Iov(id, t, sk, UserA, <<"!", "r">>) :
        id \in {Empty, <<"$", "1">>, <<"$", "2">>},
        t \in {<<"m">>, <<"m", "x">>},
        sk \in {Empty, Word}}
    \cup {Iov(<<"$", "1">>, <<"m">>, Empty, UserA, <<"!", "q">>),
          Iov(<<"$", "1">>, Empty, Empty, UserA, <<"!", "r">>),
          Iov(<<"$", "1">>, <<"m">>, Empty, Empty, <<"!", "r">>)}

\* id::event::buf{id::generate, "cdc.z"}: a random event_id
GenIds == {<<"$", "g">>, <<"$", "h">>}

\* the milliseconds of the clock as a string
Millis(n) == [i \in 1..n |-> "1"]

Cell(c, k, v) == [col |-> c, key |-> k, val |-> v]

\* db::iov::append {txn, event_id, iov}: one cell for each member of the
\* iov, in the column of its name, under the event_id
iov_append(txn, e) ==
    txn \o <<Cell("event_id", e.event_id, e.event_id),
             Cell("type", e.event_id, e.type),
             Cell("sender", e.event_id, e.sender),
             Cell("room_id", e.event_id, e.room_id),
             Cell("origin_server_ts", e.event_id, e.origin_server_ts)>>
        \o (IF e.state_key = Empty THEN << >>
            ELSE <<Cell("state_key", e.event_id, e.state_key)>>)

\* indexer::concat("event_id", "sender"): the key is col_b then col_a
concat_sender(e) == Cell("event_id in sender", e.sender \o e.event_id, Empty)

\* indexer::concat("event_id", "room_id")
concat_room_id(e) == Cell("event_id in room_id", e.room_id \o e.event_id, Empty)

\* indexer::concat_v("event_id", "room_id", "type"): the key is col_c then col_b
concat_v(e) == Cell("event_id for room_id in type", e.type \o e.room_id, e.event_id)

\* the key of indexer::concat_2v("event_id", "type", "state_key", "room_id"):
\* col_c, "..", col_b0, col_b1
concat_2v_index(e) == e.room_id \o <<".", ".">> \o e.type \o e.state_key

concat_2v(e) ==
    Cell("event_id for type,state_key in room_id", concat_2v_index(e), e.event_id)

\* m::append_indexes(event, txn): every indexer appends its cell
append_indexes(e, txn) ==
    txn \o <<concat_sender(e), concat_room_id(e), concat_v(e), concat_2v(e)>>

\* txn(*event::events): the deltas of the transaction written as one batch
RECURSIVE iov_commit(_, _)
iov_commit(db, txn) ==
    IF txn = << >> THEN db
    ELSE LET d == Head(txn) IN
         iov_commit({c \in db: ~(c.col = d.col /\ c.key = d.key)} \cup {d}, Tail(txn))

\* the clock advances between two inserts
Tick ==
    /\ epc = "idle"
    /\ eclock < MaxTime
    /\ eclock' = eclock + 1
    /\ UNCHANGED <<ein, eiov, ecount, etxn, epc, edb, epre, ecommitted, enotified,
                   erep, eafter, eerr, InsertRest>>

\* InsertBegin without the tests of the required fields
InsertBegin_nocheck ==
    /\ epc = "idle"
    /\ ecount < MaxInserts
    /\ ecount' = ecount + 1
    /\ \E iov \in InsertInputs, generated_event_id \in GenIds:
          /\ ein' = iov
          /\ eiov' = [iov EXCEPT
                         !.event_id = IF iov.event_id = Empty
                                      THEN generated_event_id ELSE iov.event_id,
                         !.origin_server_ts = Millis(eclock)]
          /\ erep' = (iov = ein /\ iov.event_id # Empty /\ eerr = "none" /\ ecount > 0)
          /\ eerr' = "none" /\ epc' = "txn"
    /\ etxn' = << >>
    /\ epre' = edb
    /\ UNCHANGED <<eclock, edb, ecommitted, enotified, eafter, InsertRest>>

\* event::insert from its entry to the construction of txn: the event_id is
\* generated when the iov has none, origin_server_ts is set to the time, and
\* BAD_JSON is thrown for an event without type or without sender
InsertBegin ==
    /\ epc = "idle"
    /\ ecount < MaxInserts
    /\ ecount' = ecount + 1
    /\ \E iov \in InsertInputs, generated_event_id \in GenIds:
          /\ ein' = iov
          /\ eiov' = [iov EXCEPT
                         !.event_id = IF iov.event_id = Empty
                                      THEN generated_event_id ELSE iov.event_id,
                         !.origin_server_ts = Millis(eclock)]
          /\ erep' = (iov = ein /\ iov.event_id # Empty /\ eerr = "none" /\ ecount > 0)
          /\ IF iov.type = Empty \/ iov.sender = Empty
             THEN eerr' = "BAD_JSON" /\ epc' = "idle"
             ELSE eerr' = "none" /\ epc' = "txn"
    /\ etxn' = << >>
    /\ epre' = edb
    /\ UNCHANGED <<eclock, edb, ecommitted, enotified, eafter, InsertRest>>

\* db::iov::append {txn, json::at<name::event_id>(event), iov}
InsertPayload ==
    /\ epc = "txn"
    /\ etxn' = iov_append(etxn, eiov)
    /\ epc' = "indexes"
    /\ UNCHANGED <<ein, eiov, eclock, ecount, edb, epre, ecommitted, enotified, erep,
                   eafter, eerr, InsertRest>>

\* append_indexes(event, txn)
InsertIndexes ==
    /\ epc = "indexes"
    /\ etxn' = append_indexes(eiov, etxn)
    /\ epc' = "commit"
    /\ UNCHANGED <<ein, eiov, eclock, ecount, edb, epre, ecommitted, enotified, erep,
                   eafter, eerr, InsertRest>>

\* variant of InsertCommit: the observers are notified whatever the commit did
InsertCommit_notify ==
    /\ epc = "commit"
    /\ \E ok \in BOOLEAN:
          /\ edb' = IF ok THEN iov_commit(edb, etxn) ELSE edb
          /\ ecommitted' = IF ok THEN ecommitted + 1 ELSE ecommitted
          /\ eafter' = IF ok /\ ~erep THEN iov_commit(edb, etxn) ELSE eafter
          /\ eerr' = IF ok THEN "none" ELSE "commit"
          /\ epc' = "notify"
    /\ UNCHANGED <<ein, eiov, eclock, ecount, etxn, epre, enotified, erep,
                   InsertRest>>

\* txn(*event::events): the commit, which throws when it fails
InsertCommit ==
    /\ epc = "commit"
    /\ \E ok \in BOOLEAN:
          /\ edb' = IF ok THEN iov_commit(edb, etxn) ELSE edb
          /\ ecommitted' = IF ok THEN ecommitted + 1 ELSE ecommitted
          /\ eafter' = IF ok /\ ~erep THEN iov_commit(edb, etxn) ELSE eafter
          /\ eerr' = IF ok THEN "none" ELSE "commit"
          /\ epc' = IF ok THEN "notify" ELSE "idle"
    /\ UNCHANGED <<ein, eiov, eclock, ecount, etxn, epre, enotified, erep,
                   InsertRest>>

\* event::inserted.notify(event)
InsertNotify ==
    /\ epc = "notify"
    /\ enotified' = enotified + 1
    /\ epc' = "idle"
    /\ UNCHANGED <<ein, eiov, eclock, ecount, etxn, edb, epre, ecommitted, erep,
                   eafter, eerr, InsertRest>>

\* the components event::insert does not use
InsertRestIdle == AuthIdle /\ ChainIdle /\ SeekIdle /\ WriteIdle /\ CellIdle /\ StatusIdle /\ OpenIdle /\ GenIdle /\ ConsoleIdle /\ VmIdle /\ HasIdle /\ MemberIdle /\ FedsIdle /\ RowIdle /\ CasIdle /\ IterIdle

InitInsert ==
    /\ ein = Iov(Empty, Empty, Empty, Empty, Empty)
    /\ eiov = Iov(Empty, Empty, Empty, Empty, Empty)
    /\ eclock = 1
    /\ ecount = 0
    /\ etxn = << >>
    /\ epc = "idle"
    /\ edb = {}
    /\ epre = {}
    /\ ecommitted = 0
    /\ enotified = 0
    /\ erep = FALSE
    /\ eafter = {}
    /\ eerr = "none"
    /\ InsertRestIdle

NextInsert ==
    \/ Tick
    \/ InsertBegin
    \/ InsertPayload
    \/ InsertIndexes
    \/ InsertCommit
    \/ InsertNotify

SpecInsert == InitInsert /\ [][NextInsert]_vars

\* the insert of the running call has committed
InsertDone == epc \in {"notify", "idle"} /\ ecount > 0 /\ eerr = "none"

\* C18: the insert of an event that was inserted just before, with the same
\* event_id and fields, succeeds and leaves every cell as the first insert
\* left it.
C18_ReplayIdempotent == (InsertDone /\ erep) => edb = eafter

\* the cells of an event: its payload and its index cells
EventCells(e) ==
    LET txn == append_indexes(e, iov_append(<< >>, e)) IN
    {txn[i] : i \in DOMAIN txn}

\* C19: the payload and every index cell go into one transaction, committed
\* once; the observers are notified only after the commit succeeded; when
\* the commit fails nobody is notified and no cell of the event is visible.
C19_InsertAtomic ==
    /\ epc \in {"txn", "indexes", "commit"} => edb = epre
    /\ epc = "commit" => {etxn[i] : i \in DOMAIN etxn} = EventCells(eiov)
    /\ epc = "notify" => edb = iov_commit(epre, etxn)
    /\ ecommitted <= ecount
    /\ enotified <= ecommitted
    /\ epc \in {"txn", "indexes", "commit", "notify"} => enotified < ecount
    /\ epc = "idle" => enotified = ecommitted
    /\ eerr = "commit" => edb = epre

\* an insert committed and notified, and another whose commit failed
C19_Witness ==
    /\ epc = "idle"
    /\ eerr = "commit"
    /\ enotified = 1
    /\ ecommitted = 1
    /\ ecount = 2
    /\ EventCells(eiov) \cap edb = {}

\* the value of the cell of a column under a key, empty if there is none
cell_val(c, k) ==
    IF \E x \in edb: x.col = c /\ x.key = k
    THEN (CHOOSE x \in edb: x.col = c /\ x.key = k).val
    ELSE Empty

\* the event stored under an event_id, by its payload cells
StoredEvent(id) ==
    [room_id |-> cell_val("room_id", id), type |-> cell_val("type", id),
     state_key |-> cell_val("state_key", id)]

StoredIds == {x.key : x \in {y \in edb: y.col = "event_id"}}

\* C20: two events that differ in room_id, type or state_key have different
\* keys in the index 'event_id for type,state_key in room_id'.
C20_IndexInjective ==
    \A x, y \in StoredIds:
        StoredEvent(x) # StoredEvent(y) =>
            concat_2v_index(StoredEvent(x)) # concat_2v_index(StoredEvent(y))

(***************************************************************************)
(* db::throw_on_error::throw_on_error(const rocksdb::Status &)             *)
(***************************************************************************)
\* the codes of rocksdb::Status; "other" is any code the switch does not name
StatusCodes ==
    {"kOk", "kNotFound", "kCorruption", "kNotSupported", "kInvalidArgument",
     "kIOError", "kMergeInProgress", "kIncomplete", "kShutdownInProgress",
     "kTimedOut", "kAborted", "kBusy", "kExpired", "kTryAgain", "other"}

\* variant of throw_on_error: a code the switch does not name throws nothing
throw_on_error_default(code) ==
    CASE code = "kOk" -> "none"
      [] code = "kNotFound" -> "not_found"
      [] code = "kCorruption" -> "corruption"
      [] code = "kNotSupported" -> "not_supported"
      [] code = "kInvalidArgument" -> "invalid_argument"
      [] code = "kIOError" -> "io_error"
      [] code = "kMergeInProgress" -> "merge_in_progress"
      [] code = "kIncomplete" -> "incomplete"
      [] code = "kShutdownInProgress" -> "shutdown_in_progress"
      [] code = "kTimedOut" -> "timed_out"
      [] code = "kAborted" -> "aborted"
      [] code = "kBusy" -> "busy"
      [] code = "kExpired" -> "expired"
      [] code = "kTryAgain" -> "try_again"
      [] OTHER -> "none"

\* the exception the switch over s.code() throws, "none" when it returns
throw_on_error(code) ==
    CASE code = "kOk" -> "none"
      [] code = "kNotFound" -> "not_found"
      [] code = "kCorruption" -> "corruption"
      [] code = "kNotSupported" -> "not_supported"
      [] code = "kInvalidArgument" -> "invalid_argument"
      [] code = "kIOError" -> "io_error"
      [] code = "kMergeInProgress" -> "merge_in_progress"
      [] code = "kIncomplete" -> "incomplete"
      [] code = "kShutdownInProgress" -> "shutdown_in_progress"
      [] code = "kTimedOut" -> "timed_out"
      [] code = "kAborted" -> "aborted"
      [] code = "kBusy" -> "busy"
      [] code = "kExpired" -> "expired"
      [] code = "kTryAgain" -> "try_again"
      [] OTHER -> "error"

\* a call of throw_on_error with a status of the engine
ThrowOnError ==
    /\ Len(tlog) < MaxThrows
    /\ \E code \in StatusCodes:
          tlog' = Append(tlog, [code |-> code, thrown |-> throw_on_error(code)])
    /\ UNCHANGED StatusRest

\* the components throw_on_error does not use
StatusRestIdle ==
    AuthIdle /\ ChainIdle /\ SeekIdle /\ WriteIdle /\ CellIdle /\ InsertIdle /\ OpenIdle /\ GenIdle /\ ConsoleIdle /\ VmIdle /\ HasIdle /\ MemberIdle /\ FedsIdle /\ RowIdle /\ CasIdle /\ IterIdle

InitStatus == tlog = << >> /\ StatusRestIdle

NextStatus == ThrowOnError

SpecStatus == InitStatus /\ [][NextStatus]_vars

\* the errors the taxonomy names
Taxonomy ==
    {"not_found", "corruption", "io_error", "invalid_argument", "not_supported",
     "busy", "timed_out", "incomplete", "try_again", "shutdown_in_progress"}

\* C21 as stated: nothing is thrown for an OK status, and every other status
\* of the engine throws an error of the taxonomy.
C21_TaxonomyStated ==
    \A i \in DOMAIN tlog:
        IF tlog[i].code = "kOk" THEN tlog[i].thrown = "none"
        ELSE tlog[i].thrown \in Taxonomy

\* C21: nothing is thrown for an OK status; every other status throws one
\* error: an error of the taxonomy, or merge_in_progress, aborted or expired
\* for the status of that name, or the base error for a code the switch does
\* not name; and only those four leave the taxonomy.
C21_Taxonomy ==
    \A i \in DOMAIN tlog:
        LET c == tlog[i].code
            t == tlog[i].thrown IN
        /\ c = "kOk" <=> t = "none"
        /\ c # "kOk" =>
              t \in Taxonomy \cup {"merge_in_progress", "aborted", "expired", "error"}
        /\ t = "merge_in_progress" <=> c = "kMergeInProgress"
        /\ t = "aborted" <=> c = "kAborted"
        /\ t = "expired" <=> c = "kExpired"
        /\ t = "error" <=> c = "other"

\* an OK status returned, and a status outside the switch threw the base error
C21_Witness ==
    /\ Len(tlog) = 2
    /\ tlog[1].code = "kOk" /\ tlog[1].thrown = "none"
    /\ tlog[2].code = "other" /\ tlog[2].thrown = "error"


\* ---------------------------------------------------------------------------
\* database::database: the columns of the description against the columns on
\* disk (db.cc)

ColumnFamilies == {"default", "a", "b"}

\* a database on disk always holds the default column
Disks == {{}} \cup {d \in SUBSET ColumnFamilies: "default" \in d}

\* column_names with every I/O error taken for an empty listing
column_names_empty(st, listed) ==
    CASE throw_on_error(st) = "none" -> [names |-> listed, thrown |-> "none"]
      [] throw_on_error(st) = "io_error" -> [names |-> {}, thrown |-> "none"]
      [] OTHER -> [names |-> {}, thrown |-> throw_on_error(st)]

\* column_names: the listing of the engine; an io_error is taken for a fresh
\* path and answers the default column; any other error propagates
column_names(st, listed) ==
    CASE throw_on_error(st) = "none" -> [names |-> listed, thrown |-> "none"]
      [] throw_on_error(st) = "io_error" -> [names |-> {"default"}, thrown |-> "none"]
      [] OTHER -> [names |-> {}, thrown |-> throw_on_error(st)]

\* the catch of the constructor: nothing is opened
OpenFail(e) ==
    /\ opc' = "failed"
    /\ oerr' = e
    /\ ohandles' = {}

\* db::column_names(path, opts): no database at the path is an I/O error of
\* the engine, and the engine may fail on a database that is there
ColumnNames ==
    /\ opc = "init"
    /\ \E st \in IF odisk = {} THEN {"kIOError"} ELSE {"kOk", "kIOError", "kCorruption"}:
          LET r == column_names(st, odisk) IN
          /\ olst' = st
          /\ onames' = r.names
          /\ IF r.thrown = "none"
                THEN opc' = "listed" /\ UNCHANGED <<oerr, ohandles>>
                ELSE OpenFail(r.thrown)
    /\ UNCHANGED <<odisk, opre, odesc, oro, ost>>
    /\ UNCHANGED OpenRest

\* "Specified column descriptors have to describe all existing columns"
DescribeCheck ==
    /\ opc = "listed"
    /\ IF \E name \in onames: name \notin odesc
          THEN OpenFail("describe")
          ELSE opc' = "checked" /\ UNCHANGED <<oerr, ohandles>>
    /\ UNCHANGED <<odisk, opre, odesc, oro, olst, onames, ost>>
    /\ UNCHANGED OpenRest

\* DB::OpenForReadOnly or DB::Open under throw_on_error, with
\* create_if_missing and create_missing_column_families set. The engine
\* refuses a description without the default column and, opened for writing,
\* one that leaves out a column on disk; read-only it creates nothing.
EngineOpen ==
    /\ opc = "checked"
    /\ LET refused == \/ "default" \notin odesc
                      \/ ~oro /\ ~(odisk \subseteq odesc)
                      \/ oro /\ ~(odesc \subseteq odisk) IN
       \E st \in IF refused THEN {"kInvalidArgument"}
                            ELSE {"kOk", "kIOError", "kCorruption"}:
          /\ ost' = st
          /\ IF throw_on_error(st) = "none"
                THEN /\ opc' = "open"
                     /\ ohandles' = odesc
                     /\ odisk' = odisk \cup odesc
                     /\ UNCHANGED oerr
                ELSE OpenFail(throw_on_error(st)) /\ UNCHANGED odisk
    /\ UNCHANGED <<opre, odesc, oro, olst, onames>>
    /\ UNCHANGED OpenRest

\* the components the open does not use
OpenRestIdle ==
    AuthIdle /\ ChainIdle /\ SeekIdle /\ WriteIdle /\ CellIdle /\ InsertIdle /\ StatusIdle /\ GenIdle /\ ConsoleIdle /\ VmIdle /\ HasIdle /\ MemberIdle /\ FedsIdle /\ RowIdle /\ CasIdle /\ IterIdle

InitOpen ==
    /\ odisk \in Disks
    /\ opre = odisk
    /\ odesc \in SUBSET ColumnFamilies
    /\ oro \in BOOLEAN
    /\ olst = "none" /\ onames = {} /\ ost = "none"
    /\ opc = "init" /\ ohandles = {} /\ oerr = "none"
    /\ OpenRestIdle

NextOpen == ColumnNames \/ DescribeCheck \/ EngineOpen

SpecOpen == InitOpen /\ [][NextOpen]_vars

OpenDone == opc \in {"open", "failed"}

JString(id) == [kind |-> "string", id |-> id]

JNilly == [kind |-> "object", members |-> << <<"", "">> >>]

JArray(elems) == [kind |-> "array", elems |-> elems]

\* v1_ref: an array of the event id and the object nilly
v1_ref(out, event_id) == Append(out, JArray(<<JString(event_id), JNilly>>))

\* v3_ref: the event id
v3_ref(out, event_id) == Append(out, JString(event_id))

\* fetch_append that takes only version "1" for the tuple format
fetch_append_v1only(version, out, event_id) ==
    IF version = "1" THEN v1_ref(out, event_id) ELSE v3_ref(out, event_id)

\* version == "1" || version == "2"? v1_ref : v3_ref
fetch_append(version, out, event_id) ==
    IF version = "1" \/ version = "2"
    THEN v1_ref(out, event_id) ELSE v3_ref(out, event_id)

\* state.get(std::nothrow, type, state_key, fetch_append): the closure is
\* called with the id of the state event, if there is one
state_get(state, version, out, type, state_key) ==
    IF \E i \in state: Stored[i].type = type /\ Stored[i].state_key = state_key
    THEN fetch_append(version, out,
            CHOOSE i \in state: Stored[i].type = type /\ Stored[i].state_key = state_key)
    ELSE out

\* variant of generate: the target's member event is fetched also when the
\* state_key is the sender
generate_sametarget(version, state, ev) ==
    IF ev.type = "" \/ ev.type = "m.room.create"
    THEN [ret |-> FALSE, out |-> << >>]
    ELSE
    LET o1 == state_get(state, version, << >>, "m.room.create", Empty)
        o2 == state_get(state, version, o1, "m.room.power_levels", Empty)
        o3 == IF ev.type = "m.room.member"
                 /\ (membership(ev) = "" \/ membership(ev) = "join"
                     \/ membership(ev) = "invite")
              THEN state_get(state, version, o2, "m.room.join_rules", Empty)
              ELSE o2
        member_sender == ev.sender
        o4 == IF member_sender # Empty
              THEN state_get(state, version, o3, "m.room.member", member_sender)
              ELSE o3
        member_target ==
              IF ev.sender # Empty /\ ev.state_key # Empty
                 /\ startswith(ev.state_key, "@")
              THEN ev.state_key ELSE Empty
        o5 == IF member_target # Empty
              THEN state_get(state, version, o4, "m.room.member", member_target)
              ELSE o4 IN
    [ret |-> TRUE, out |-> o5]

\* generate(json::stack::array &, room, event)
generate(version, state, ev) ==
    IF ev.type = "" \/ ev.type = "m.room.create"
    THEN [ret |-> FALSE, out |-> << >>]
    ELSE
    LET o1 == state_get(state, version, << >>, "m.room.create", Empty)
        o2 == state_get(state, version, o1, "m.room.power_levels", Empty)
        o3 == IF ev.type = "m.room.member"
                 /\ (membership(ev) = "" \/ membership(ev) = "join"
                     \/ membership(ev) = "invite")
              THEN state_get(state, version, o2, "m.room.join_rules", Empty)
              ELSE o2
        member_sender == ev.sender
        o4 == IF member_sender # Empty
              THEN state_get(state, version, o3, "m.room.member", member_sender)
              ELSE o3
        member_target ==
              IF ev.sender # Empty /\ ev.state_key # Empty
                 /\ ev.sender # ev.state_key /\ startswith(ev.state_key, "@")
              THEN ev.state_key ELSE Empty
        o5 == IF member_target # Empty
              THEN state_get(state, version, o4, "m.room.member", member_target)
              ELSE o4 IN
    [ret |-> TRUE, out |-> o5]

\* generate(buf, room, event): the array is rewound when nothing is generated
Generate ==
    /\ gpc = "call"
    /\ LET r == generate(gver, gstate, gev) IN
       /\ gret' = r.ret
       /\ gout' = IF r.ret THEN r.out ELSE << >>
    /\ gpc' = "done"
    /\ UNCHANGED <<gev, gstate, gver>>
    /\ UNCHANGED GenRest

\* the room versions
Versions == {"1", "2", "3", "4", "5"}

\* the events auth_events are generated for
GenEvents ==
    {Ev(t, k, k # Empty, s, "r1", m) :
        t \in {"", "m.room.create", "m.room.member", "m.room.message"},
        k \in {Empty, UserA, UserB, Word},
        s \in {Empty, UserA, UserB}, m \in {"", "join", "invite", "leave"}}

\* the components generate does not use
GenRestIdle ==
    AuthIdle /\ ChainIdle /\ SeekIdle /\ WriteIdle /\ CellIdle /\ InsertIdle /\ StatusIdle /\ OpenIdle /\ ConsoleIdle /\ VmIdle /\ HasIdle /\ MemberIdle /\ FedsIdle /\ RowIdle /\ CasIdle /\ IterIdle

InitGen ==
    /\ gev \in GenEvents
    /\ gstate \in PresentStates
    /\ gver \in Versions
    /\ gout = << >>
    /\ gret = FALSE
    /\ gpc = "call"
    /\ GenRestIdle

NextGen == Generate

SpecGen == InitGen /\ [][NextGen]_vars

\* a reference in the format of versions 1 and 2: [event_id, {...}]
IsTupleRef(r) ==
    /\ r.kind = "array"
    /\ Len(r.elems) = 2
    /\ r.elems[1].kind = "string" /\ r.elems[1].id \in gstate
    /\ r.elems[2].kind = "object"

\* a reference in the later format: the event_id
IsBareRef(r) == r.kind = "string" /\ r.id \in gstate

\* C23: every auth reference generate writes is a tuple of the event id and
\* an object when the room version is "1" or "2" and the bare event id for
\* every later version, and nothing is written for an m.room.create event.
C23_AuthRefFormat ==
    gpc = "done" =>
        /\ gver \in {"1", "2"} => \A i \in DOMAIN gout: IsTupleRef(gout[i])
        /\ gver \notin {"1", "2"} => \A i \in DOMAIN gout: IsBareRef(gout[i])
        /\ gev.type = "m.room.create" => gout = << >>

\* a member event in a version 2 room whose five auth references were written
C23_Witness ==
    /\ gpc = "done"
    /\ gver = "2"
    /\ gev.type = "m.room.member"
    /\ Len(gout) = 5
    /\ \A i \in DOMAIN gout: IsTupleRef(gout[i])


\* ---------------------------------------------------------------------------
\* console commands that change the stored events and the room head
\* (console.cc)

EventIds == {1, 2}

\* m::vm::eval{event, opts}: with the WRITE phase the event's cells are
\* stored and the event enters the room head; without it nothing is written
vm_eval(st, event_id, write) ==
    IF write THEN [events |-> st.events \cup {event_id},
                   head |-> st.head \cup {event_id}]
    ELSE st

ConsoleState == [events |-> kevents, head |-> khead]

\* what a command leaves behind
ConsoleDone(cmd, after, evals) ==
    /\ kevents' = after.events
    /\ khead' = after.head
    /\ klog' = Append(klog, [cmd |-> cmd, before |-> ConsoleState,
                             after |-> after, evals |-> evals])
    /\ UNCHANGED ConsoleRest

\* "event erase": a db::txn of DELETE cells for the fetched event, committed
console_cmd__event__erase ==
    /\ Len(klog) < MaxCommands
    /\ \E event_id \in kevents:
          ConsoleDone("event erase",
                      [ConsoleState EXCEPT !.events = @ \ {event_id}], 0)

\* "room head add": m::room::head::modify(event_id, db::op::SET, true)
console_cmd__room__head__add ==
    /\ Len(klog) < MaxCommands
    /\ \E event_id \in EventIds:
          ConsoleDone("room head add",
                      [ConsoleState EXCEPT !.head = @ \cup {event_id}], 0)

\* "room head del": m::room::head::modify(event_id, db::op::DELETE, true)
console_cmd__room__head__del ==
    /\ Len(klog) < MaxCommands
    /\ \E event_id \in EventIds:
          ConsoleDone("room head del",
                      [ConsoleState EXCEPT !.head = @ \ {event_id}], 0)

\* "eval": the fetched event is handed to m::vm::eval; "nowrite" resets the
\* WRITE phase
console_cmd__eval ==
    /\ Len(klog) < MaxCommands
    /\ \E event_id \in kevents, nowrite \in BOOLEAN:
          ConsoleDone("eval", vm_eval(ConsoleState, event_id, ~nowrite), 1)

\* the components the console commands do not use
ConsoleRestIdle ==
    AuthIdle /\ ChainIdle /\ SeekIdle /\ WriteIdle /\ CellIdle /\ InsertIdle /\ StatusIdle /\ OpenIdle /\ GenIdle /\ VmIdle /\ HasIdle /\ MemberIdle /\ FedsIdle /\ RowIdle /\ CasIdle /\ IterIdle

InitConsole ==
    /\ kevents \in SUBSET EventIds
    /\ khead \in SUBSET kevents
    /\ klog = << >>
    /\ ConsoleRestIdle

NextConsole ==
    \/ console_cmd__event__erase
    \/ console_cmd__room__head__add
    \/ console_cmd__room__head__del
    \/ console_cmd__eval

SpecConsole == InitConsole /\ [][NextConsole]_vars

\* C24: a console command changes the stored events and the room head only
\* by submitting an event to the VM: a command that made no eval leaves both
\* as they were.
C24_ConsoleViaVm ==
    \A i \in DOMAIN klog:
        klog[i].before # klog[i].after => klog[i].evals > 0


\* ---------------------------------------------------------------------------
\* "fed event ... eval": the phases of an evaluation (console.cc; the
\* evaluator m::vm::eval itself is described by its phase table)

Phases ==
    <<"ISSUE", "CONFORM", "ACCESS", "VERIFY", "FETCH_AUTH", "AUTH_STATIC",
      "FETCH_PREV", "FETCH_STATE", "PRECOMMIT", "AUTH_RELA", "AUTH_PRES",
      "WRITE", "POST", "NOTIFY">>

PhaseSet == {Phases[i] : i \in DOMAIN Phases}

\* the position of a phase in the order
PhaseAt(p) == CHOOSE i \in DOMAIN Phases: Phases[i] = p

\* vmopts.phase.set(phase, value)
phase_set(phase, p, value) == IF value THEN phase \cup {p} ELSE phase \ {p}

\* the vmopts of "fed event" that leave the WRITE phase as it is
fed_event_opts_write(oparg) ==
    LET noauth == "noauth" \in oparg
        p1 == phase_set(PhaseSet, "FETCH_PREV", "prev" \in oparg)
        p2 == phase_set(p1, "FETCH_STATE", FALSE)
        p3 == phase_set(p2, "ACCESS", "noacl" \notin oparg)
        p4 == phase_set(p3, "CONFORM", "noconform" \notin oparg)
        p5 == phase_set(p4, "VERIFY", "noverify" \notin oparg)
        p6 == phase_set(p5, "AUTH_STATIC", ~noauth)
        p7 == phase_set(p6, "AUTH_RELA", ~noauth)
        p8 == phase_set(p7, "AUTH_PRES", ~noauth) IN
    p8

\* the vmopts of "fed event": every phase of a default m::vm::opts is set
fed_event_opts(oparg) ==
    LET noauth == "noauth" \in oparg
        p1 == phase_set(PhaseSet, "FETCH_PREV", "prev" \in oparg)
        p2 == phase_set(p1, "FETCH_STATE", FALSE)
        p3 == phase_set(p2, "ACCESS", "noacl" \notin oparg)
        p4 == phase_set(p3, "CONFORM", "noconform" \notin oparg)
        p5 == phase_set(p4, "VERIFY", "noverify" \notin oparg)
        p6 == phase_set(p5, "AUTH_STATIC", ~noauth)
        p7 == phase_set(p6, "AUTH_RELA", ~noauth)
        p8 == phase_set(p7, "AUTH_PRES", ~noauth)
        p9 == phase_set(p8, "WRITE", "nowrite" \notin oparg) IN
    p9

\* console_cmd__fed__event: with the op "eval" the event is evaluated under
\* the vmopts; any other op prints the event
console_cmd__fed__event ==
    /\ vresult = "ready"
    /\ IF veval
          THEN /\ vopts' = fed_event_opts(varg)
               /\ vresult' = "running"
               /\ vi' = 1
          ELSE /\ vresult' = "printed"
               /\ UNCHANGED <<vopts, vi>>
    /\ UNCHANGED <<varg, veval, vfail, vstored, vran, vfailed, vrows>>
    /\ UNCHANGED VmRest

\* one phase of the evaluation: a phase opted out of is passed over; a phase
\* that fails rejects the event and is recorded; PRECOMMIT accepts an event
\* already stored without rewriting it; WRITE commits the rows
VmPhase ==
    /\ vresult = "running"
    /\ vi <= Len(Phases)
    /\ LET p == Phases[vi] IN
       IF p \notin vopts
       THEN /\ vi' = vi + 1
            /\ UNCHANGED <<vran, vresult, vfailed, vrows>>
       ELSE /\ vran' = Append(vran, p)
            /\ IF p \in vfail
                  THEN /\ vresult' = "rejected"
                       /\ vfailed' = p
                       /\ UNCHANGED <<vi, vrows>>
                  ELSE IF p = "PRECOMMIT" /\ vstored
                  THEN /\ vresult' = "accepted"
                       /\ UNCHANGED <<vi, vfailed, vrows>>
                  ELSE /\ vi' = vi + 1
                       /\ vrows' = (vrows \/ p = "WRITE")
                       /\ UNCHANGED <<vresult, vfailed>>
    /\ UNCHANGED <<varg, veval, vfail, vstored, vopts>>
    /\ UNCHANGED VmRest

\* after the last phase the event is accepted
VmAccept ==
    /\ vresult = "running"
    /\ vi > Len(Phases)
    /\ vresult' = "accepted"
    /\ UNCHANGED <<varg, veval, vfail, vstored, vopts, vi, vran, vfailed, vrows>>
    /\ UNCHANGED VmRest

\* the oparg words "fed event" knows
OpArgs == {"prev", "noacl", "noconform", "noverify", "noauth", "nowrite"}

\* the components the evaluation does not use
VmRestIdle ==
    AuthIdle /\ ChainIdle /\ SeekIdle /\ WriteIdle /\ CellIdle /\ InsertIdle /\ StatusIdle /\ OpenIdle /\ GenIdle /\ ConsoleIdle /\ HasIdle /\ MemberIdle /\ FedsIdle /\ RowIdle /\ CasIdle /\ IterIdle

InitVm ==
    /\ varg \in SUBSET OpArgs
    /\ veval \in BOOLEAN
    /\ vfail \in SUBSET {"CONFORM", "VERIFY", "AUTH_RELA", "WRITE"}
    /\ vstored \in BOOLEAN
    /\ vopts = {}
    /\ vi = 0
    /\ vran = << >>
    /\ vresult = "ready"
    /\ vfailed = "none"
    /\ vrows = FALSE
    /\ VmRestIdle

NextVm == console_cmd__fed__event \/ VmPhase \/ VmAccept

SpecVm == InitVm /\ [][NextVm]_vars

\* the phases "fed event" opts out of for its oparg
OptedOut ==
    {"FETCH_STATE"}
    \cup (IF "prev" \in varg THEN {} ELSE {"FETCH_PREV"})
    \cup (IF "noacl" \in varg THEN {"ACCESS"} ELSE {})
    \cup (IF "noconform" \in varg THEN {"CONFORM"} ELSE {})
    \cup (IF "noverify" \in varg THEN {"VERIFY"} ELSE {})
    \cup (IF "noauth" \in varg THEN {"AUTH_STATIC", "AUTH_RELA", "AUTH_PRES"} ELSE {})
    \cup (IF "nowrite" \in varg THEN {"WRITE"} ELSE {})

C26_FirstPassAllRefs ==
    (pass = 1 /\ pc # "entry") =>
        /\ {authv[i] : i \in DOMAIN authv} = {index(refs[k]) : k \in DOMAIN refs}
        /\ (event.type # "m.room.create"
            /\ \E k \in DOMAIN refs: Stored[index(refs[k])].type = "m.room.create")
              => data.fail # "3"


\* the present state events the second pass is to be made against
PresentAuth(ev) ==
    {room_get(ev.room_id, "m.room.create", Empty),
     room_get(ev.room_id, "m.room.power_levels", Empty),
     room_get(ev.room_id, "m.room.member", ev.sender)}
    \cup (IF ev.type = "m.room.member" /\ membership(ev) \in {"join", "invite"}
          THEN {room_get(ev.room_id, "m.room.join_rules", Empty)} ELSE {})
    \cup (IF ev.type = "m.room.member" /\ ev.sender # ev.state_key
          THEN {room_get(ev.room_id, "m.room.member", ev.state_key)} ELSE {})

\* C27: the pass on the present state is made against every one of the
\* present m.room.create, m.room.power_levels, member event of the sender,
\* m.room.join_rules (for a join or invite) and member event of the target
\* (for a member event whose sender is not its state_key) that exists.
C27_PresentPassAll ==
    pass = 2 =>
        {authv[i] : i \in DOMAIN authv} = {x \in PresentAuth(event) : x # 0}


\* ---------------------------------------------------------------------------
\* check/3: the types whose hook decides

\* C28: for an m.room.aliases or m.room.member event that passes rules 2 and
\* 3 the result is the outcome of the hook, and rules 6, 8 and 9 are not
\* evaluated; for an m.room.third_party_invite event that passes rule 6 the
\* result is the outcome of the hook, and rules 8 and 9 are not evaluated.
C28_HookDecides ==
    /\ event.type \in {"m.room.aliases", "m.room.member"} =>
          /\ ~Evaluated(6) /\ ~Evaluated(8) /\ ~Evaluated(9)
          /\ (pc = "done" /\ data.fail \notin Rule2Fails \cup {"3"}) =>
                /\ Len(hooked) = 1
                /\ HookType(hooked[1][1]) = event.type
                /\ trace[Len(trace)] = hooked[1][1]
                /\ passfail(data) = HookResult(hooked[1][2])
    /\ event.type = "m.room.third_party_invite" =>
          /\ ~Evaluated(8) /\ ~Evaluated(9)
          /\ (pc = "done" /\ data.fail \notin Rule2Fails \cup {"3", "6"}) =>
                /\ Len(hooked) = 1
                /\ hooked[1][1] = 7
                /\ trace = <<1, 2, 3, 4, 5, 6, 7>>
                /\ passfail(data) = HookResult(hooked[1][2])

\* a member event the hook allowed although its sender is not joined
C28_Witness ==
    /\ pc = "done"
    /\ event.type = "m.room.member"
    /\ trace = <<1, 2, 3, 4, 5>>
    /\ hooked = << <<5, "allow">> >>
    /\ data.allow
    /\ check_room_auth_rule_6(data) # "ok"


\* ---------------------------------------------------------------------------
\* check(event): the pair check(std::nothrow, event) hands back

\* C29: the returned pair is consistent: a failure comes with allow = false,
\* an event that reached "12. Otherwise, allow" without a throw of its hook
\* comes back allowed without a failure, and the pair (allow = false, no
\* failure), which check(event) would rethrow as a null exception, is never
\* returned.
C29_PassfailConsistent ==
    pc = "done" =>
        /\ ret.fail # "none" => ~ret.allow
        /\ (Evaluated(12) /\ hooked[Len(hooked)][2] # "throw") =>
              (data.allow /\ data.fail = "none")
        /\ ~(~ret.allow /\ ret.fail = "none")


\* ---------------------------------------------------------------------------
\* db::has(column, key, gopts) (db.cc)

HasKeys == 1..3

\* Get(opts, c, k, nullptr): the cache tier answers from the cache or is
\* incomplete; the blocking tier reads, which may fail
Get(tier) ==
    LET answer == IF hkey \in hdb THEN "kOk" ELSE "kNotFound" IN
    IF tier = "NON_BLOCKING"
    THEN IF hcached THEN {answer} ELSE {"kIncomplete"}
    ELSE {answer, "kIOError", "kCorruption"}

\* the switch on status.code(). Under default: the statement
\* "throw_on_error(status);" declares a local throw_on_error named status,
\* constructed from the default argument Status::OK(), so nothing is thrown
\* for the status of the Get and __builtin_unreachable() is reached: the
\* behaviour is undefined
has_result(status) ==
    CASE status = "kOk" -> {"true"}
      [] status = "kNotFound" -> {"false"}
      [] OTHER -> IF throw_on_error("kOk") # "none"
                  THEN {throw_on_error("kOk")}
                  ELSE {"true", "false", "undefined"}

\* KeyMayExist on the cache tier: false only for a key that is not stored
HasFilter ==
    /\ hpc = "call"
    /\ htier' = "NON_BLOCKING"
    /\ \E may \in IF hkey \in hdb THEN {TRUE} ELSE BOOLEAN:
          IF ~may
          THEN hret' = "false" /\ hpc' = "done"
          ELSE hret' = hret /\ hpc' = "get"
    /\ UNCHANGED <<hdb, hkey, hcached, hstatus>>
    /\ UNCHANGED HasRest

\* the query to the cache
HasGet ==
    /\ hpc = "get"
    /\ \E st \in Get(htier):
          /\ hstatus' = st
          /\ hpc' = IF st = "kIncomplete" THEN "offload" ELSE "result"
    /\ UNCHANGED <<hdb, hkey, hcached, htier, hret>>
    /\ UNCHANGED HasRest

\* the cache miss: the Get is repeated on the blocking tier, offloaded
HasOffload ==
    /\ hpc = "offload"
    /\ htier' = "BLOCKING"
    /\ \E st \in Get("BLOCKING"): hstatus' = st
    /\ hpc' = "result"
    /\ UNCHANGED <<hdb, hkey, hcached, hret>>
    /\ UNCHANGED HasRest

\* "Finally the result"
HasResult ==
    /\ hpc = "result"
    /\ \E r \in has_result(hstatus): hret' = r
    /\ hpc' = "done"
    /\ UNCHANGED <<hdb, hkey, hcached, htier, hstatus>>
    /\ UNCHANGED HasRest

\* the components has does not use
HasRestIdle ==
    AuthIdle /\ ChainIdle /\ SeekIdle /\ WriteIdle /\ CellIdle /\ InsertIdle /\ StatusIdle /\ OpenIdle /\ GenIdle /\ ConsoleIdle /\ VmIdle /\ MemberIdle /\ FedsIdle /\ RowIdle /\ CasIdle /\ IterIdle

InitHas ==
    /\ hdb \in SUBSET HasKeys
    /\ hkey \in HasKeys
    /\ hcached \in BOOLEAN
    /\ htier = "none"
    /\ hstatus = "none"
    /\ hpc = "call"
    /\ hret = "none"
    /\ HasRestIdle

NextHas == HasFilter \/ HasGet \/ HasOffload \/ HasResult

SpecHas == InitHas /\ [][NextHas]_vars

\* C30: has answers true exactly for a stored key, on a cache hit and on a
\* miss alike, and a status of the engine other than OK and not-found is
\* raised as its error instead of being answered as absence.
C30_Has ==
    hpc = "done" =>
        IF hstatus \in {"none", "kOk", "kNotFound"}
        THEN /\ hret \in {"true", "false"}
             /\ hret = "true" <=> hkey \in hdb
        ELSE hret = throw_on_error(hstatus)


\* ---------------------------------------------------------------------------
\* event::insert: the required fields

\* C31: an insert of an event without type or without sender throws BAD_JSON
\* before anything is written: the step that takes the event leaves the
\* events database and the count of notifications as they were and builds no
\* transaction, and nothing is written or notified until the next insert.
C31_BadJson ==
    [][/\ (ecount' = ecount + 1 /\ (ein'.type = Empty \/ ein'.sender = Empty)) =>
             /\ eerr' = "BAD_JSON"
             /\ epc' = "idle"
             /\ etxn' = << >>
             /\ edb' = edb
             /\ enotified' = enotified
       /\ (eerr = "BAD_JSON" /\ ecount' = ecount) =>
             (edb' = edb /\ enotified' = enotified)]_vars

\* a second insert, of an event without a required field, after a first
\* that was committed and notified
C31_Witness ==
    /\ eerr = "BAD_JSON"
    /\ ecount = 2
    /\ (ein.type = Empty \/ ein.sender = Empty)
    /\ edb # {} /\ edb = epre
    /\ enotified = 1
    /\ epc = "idle"


\* ---------------------------------------------------------------------------
\* room::membership, room::is_member, join and leave (matrix.cc)

\* the event ids id::generate may give: one per call
MemberIds == 1..MaxMember

\* m::event::where::equal {type m.room.member, state_key user_id}
member_where(e, user_id) == e.state_key = user_id

\* events.query(where, closure): the cursor on "event_id in room_id" runs
\* from begin(room_id) in the order of the keys, and the closure of
\* is_member returns true on the first event that passes where
RECURSIVE member_query(_, _, _, _)
member_query(db, user_id, mship, found) ==
    IF db = {} THEN found
    ELSE LET e == CHOOSE x \in db: \A y \in db: x.event_id <= y.event_id IN
         IF member_where(e, user_id)
         THEN mship = e.membership
         ELSE member_query(db \ {e}, user_id, mship, found)

\* room::is_member(user_id, membership)
is_member(db, user_id, mship) == member_query(db, user_id, mship, FALSE)

\* the membership of the most recent m.room.member event of the user
CurrentMembership(user_id) ==
    LET mine == {i \in DOMAIN mtime:
                    \E e \in mdb: e.event_id = mtime[i] /\ member_where(e, user_id)} IN
    IF mine = {} THEN ""
    ELSE LET last == CHOOSE i \in mine: \A j \in mine: j <= i IN
         (CHOOSE e \in mdb: e.event_id = mtime[last]).membership

\* room::membership(user_id, content) as join and leave call it: throws
\* ALREADY_MEMBER, or sends an m.room.member event under a generated id
Membership ==
    /\ Len(mlog) < MaxMember
    /\ \E user_id \in {UserA, UserB}, mship \in {"join", "leave"}:
          IF is_member(mdb, user_id, mship)
          THEN /\ mlog' = Append(mlog, [user |-> user_id, membership |-> mship,
                                        current |-> CurrentMembership(user_id),
                                        result |-> "ALREADY_MEMBER", inserted |-> 0])
               /\ UNCHANGED <<mdb, mtime>>
          ELSE \E generated_event_id \in MemberIds \ {e.event_id : e \in mdb}:
               /\ mdb' = mdb \cup {[event_id |-> generated_event_id,
                                    state_key |-> user_id,
                                    membership |-> mship]}
               /\ mtime' = Append(mtime, generated_event_id)
               /\ mlog' = Append(mlog, [user |-> user_id, membership |-> mship,
                                        current |-> CurrentMembership(user_id),
                                        result |-> "sent", inserted |-> 1])
    /\ UNCHANGED MemberRest

\* the components room::membership does not use
MemberRestIdle ==
    AuthIdle /\ ChainIdle /\ SeekIdle /\ WriteIdle /\ CellIdle /\ InsertIdle /\ StatusIdle /\ OpenIdle /\ GenIdle /\ ConsoleIdle /\ VmIdle /\ HasIdle /\ FedsIdle /\ RowIdle /\ CasIdle /\ IterIdle

InitMember ==
    /\ mdb = {}
    /\ mtime = << >>
    /\ mlog = << >>
    /\ MemberRestIdle

NextMember == Membership

SpecMember == InitMember /\ [][NextMember]_vars

\* C32: room::membership throws ALREADY_MEMBER and inserts no event exactly
\* when the membership of the user's most recent m.room.member event equals
\* the one asked for, and inserts one event otherwise.
C32_AlreadyMember ==
    \A i \in DOMAIN mlog:
        /\ mlog[i].result = "ALREADY_MEMBER" <=> mlog[i].current = mlog[i].membership
        /\ mlog[i].result = "ALREADY_MEMBER" => mlog[i].inserted = 0
        /\ mlog[i].result # "ALREADY_MEMBER" => mlog[i].inserted = 1


\* ---------------------------------------------------------------------------
\* feds::creator and feds::handler (federation.cc)

Origins == 1..MaxOrigins

\* opts.timeout, in ticks
FedsTimeout == 1

\* what the caller's closure may do with a result
ClosureOutcomes == {"true", "false", "throw"}

\* creator: one request per origin of the room without a server error
creator(errmsg) == {origin \in Origins: origin \notin errmsg}

\* ctx::when_any(begin(reqs), end(reqs)): the request of the list that
\* completed first, 0 while none has completed
when_any(reqs, done) ==
    IF \E i \in DOMAIN done: done[i] \in reqs
    THEN done[CHOOSE i \in DOMAIN done:
                 /\ done[i] \in reqs
                 /\ \A j \in DOMAIN done: done[j] \in reqs => i <= j]
    ELSE 0

\* what follows a call of the closure that returned or threw its last
FedsAfter(req, log, o) ==
    /\ fdeliv' = log
    /\ CASE o = "true"  -> freqs' = freqs \ {req} /\ UNCHANGED <<fpc, fret>>
         [] o = "false" -> fret' = "false" /\ fpc' = "done" /\ UNCHANGED freqs
         [] OTHER       -> fret' = "threw" /\ fpc' = "done" /\ UNCHANGED freqs

\* the body of the loop for the request next.get(): req.get() returns the
\* code or throws; the closure is called inside the try block, so what it
\* throws is caught as well and the closure is called again with the
\* exception
FedsDeliver(req) ==
    IF fstate[req] = "ok"
    THEN \E o \in ClosureOutcomes:
            LET called1 == Append(fdeliv, [origin |-> req, kind |-> "response", out |-> o]) IN
            IF o # "throw" THEN FedsAfter(req, called1, o)
            ELSE \E o2 \in ClosureOutcomes:
                    FedsAfter(req, Append(called1, [origin |-> req, kind |-> "exception",
                                                  out |-> o2]), o2)
    ELSE \E o2 \in ClosureOutcomes:
            FedsAfter(req, Append(fdeliv, [origin |-> req, kind |-> "exception",
                                           out |-> o2]), o2)

\* handler whose wait has no deadline
handler_nodeadline ==
    /\ fpc = "loop"
    /\ IF freqs = {}
       THEN fret' = "true" /\ fpc' = "done" /\ UNCHANGED <<freqs, fdeliv>>
       ELSE /\ when_any(freqs, fdone) # 0
            /\ FedsDeliver(when_any(freqs, fdone))
    /\ UNCHANGED <<fstate, fdone, fnow, fwhen>>
    /\ UNCHANGED FedsRest

\* one turn of the loop of handler: it waits for a request to complete until
\* the deadline
handler ==
    /\ fpc = "loop"
    /\ IF freqs = {}
       THEN fret' = "true" /\ fpc' = "done" /\ UNCHANGED <<freqs, fdeliv>>
       ELSE IF when_any(freqs, fdone) # 0
       THEN FedsDeliver(when_any(freqs, fdone))
       ELSE /\ fnow >= fwhen
            /\ fret' = "true" /\ fpc' = "done" /\ UNCHANGED <<freqs, fdeliv>>
    /\ UNCHANGED <<fstate, fdone, fnow, fwhen>>
    /\ UNCHANGED FedsRest

\* a request completes with a response or with an exception
FedsComplete ==
    /\ fpc = "loop"
    /\ \E origin \in freqs, result \in {"ok", "err"}:
          /\ fstate[origin] = "pending"
          /\ fstate' = [fstate EXCEPT ![origin] = result]
          /\ fdone' = Append(fdone, origin)
    /\ UNCHANGED <<freqs, fnow, fwhen, fdeliv, fpc, fret>>
    /\ UNCHANGED FedsRest

\* the clock
FedsTick ==
    /\ fpc = "loop"
    /\ fnow < MaxClock
    /\ fnow' = fnow + 1
    /\ UNCHANGED <<freqs, fstate, fdone, fwhen, fdeliv, fpc, fret>>
    /\ UNCHANGED FedsRest

\* the components feds does not use
FedsRestIdle ==
    AuthIdle /\ ChainIdle /\ SeekIdle /\ WriteIdle /\ CellIdle /\ InsertIdle /\ StatusIdle /\ OpenIdle /\ GenIdle /\ ConsoleIdle /\ VmIdle /\ HasIdle /\ MemberIdle /\ RowIdle /\ CasIdle /\ IterIdle

InitFeds ==
    /\ \E errmsg \in SUBSET Origins: freqs = creator(errmsg)
    /\ fstate = [origin \in Origins |-> "pending"]
    /\ fdone = << >>
    /\ fnow = 0
    /\ fwhen = FedsTimeout
    /\ fdeliv = << >>
    /\ fpc = "loop"
    /\ fret = "running"
    /\ FedsRestIdle

NextFeds == handler \/ FedsComplete \/ FedsTick

SpecFeds == InitFeds /\ [][NextFeds]_vars

\* the clock advances and the handler's context is scheduled
SpecFedsFair == SpecFeds /\ WF_vars(handler) /\ WF_vars(FedsTick)

\* C33: the outcome of each request is handed to the closure at most once,
\* in the order of completion, and the request is removed after it; once the
\* closure returns false the handler returns false and nothing more is
\* delivered.
C33_DeliverOnce ==
    /\ \A i, j \in DOMAIN fdeliv: fdeliv[i].origin = fdeliv[j].origin => i = j
    /\ \A i, j \in DOMAIN fdeliv: i < j =>
          \E a, b \in DOMAIN fdone:
             a < b /\ fdone[a] = fdeliv[i].origin /\ fdone[b] = fdeliv[j].origin
    /\ \A i \in DOMAIN fdeliv:
          fdeliv[i].out = "true" => fdeliv[i].origin \notin freqs
    /\ \A i \in DOMAIN fdeliv:
          fdeliv[i].out = "false" => (i = Len(fdeliv) /\ fret = "false")


\* C34: the handler does not wait beyond the deadline: once the deadline has
\* passed it ends; when it returns true, every request was delivered, or the
\* deadline has passed and the requests left are pending and were not handed
\* to the closure; a pending request is never handed to the closure.
C34_Deadline ==
    /\ [](fret = "true" =>
            \/ freqs = {}
            \/ /\ fnow >= fwhen
               /\ \A origin \in freqs:
                     /\ fstate[origin] = "pending"
                     /\ \A i \in DOMAIN fdeliv: fdeliv[i].origin # origin)
    /\ [](\A i \in DOMAIN fdeliv: fstate[fdeliv[i].origin] # "pending")
    /\ ((fpc = "loop" /\ fnow >= fwhen) ~> (fpc = "done"))

\* the deadline passed with one request delivered and one still pending
C34_Witness ==
    /\ fret = "true"
    /\ fnow >= fwhen
    /\ Len(fdeliv) = 1 /\ fdeliv[1].out = "true"
    /\ \E origin \in freqs: fstate[origin] = "pending"

(***************************************************************************)
(* db::row and the cells it holds (ircd/db.cc).  Every column stores a set *)
(* of keys; the value stored under key k of column c is the pair <<c, k>>, *)
(* so that a value tells the key it is stored under.  The empty string is  *)
(* << >> for a value and 0 for a key.                                      *)
(***************************************************************************)
RowCols == <<"a", "b">>

\* variant of valid_equal: the comparison of the key left out
valid_equal_nokey(it, sv) == valid(it)

\* db::valid_equal(const rocksdb::Iterator &, const string_view &)
valid_equal(it, sv) ==
    IF ~valid(it) THEN FALSE
    ELSE IF it.key # sv THEN FALSE
    ELSE TRUE

\* cell::valid()
cell__valid(c) == c.it.st # "null" /\ valid_equal(c.it, c.index)

\* seek(cell &, const pos &): a lower bound in the cell's column
cell__seek(db, c, p) ==
    [c EXCEPT !.it = IF p = 0 THEN at(lower(db[c.col], 1))
                      ELSE at(lower(db[c.col], p))]

\* cell::load()
cell__load(db, c) == IF cell__valid(c) THEN c ELSE cell__seek(db, c, c.index)

\* cell::val(): the cell it leaves and the value it returns
cell__val(db, c) ==
    LET l == IF ~cell__valid(c) THEN cell__load(db, c) ELSE c IN
    [cell |-> l, out |-> IF cell__valid(l) THEN <<l.col, l.it.key>> ELSE << >>]

\* cell::val() const
cell__val_const(c) == IF cell__valid(c) THEN <<c.col, c.it.key>> ELSE << >>

\* cell::key(): the cell it leaves and the key it returns
cell__key(db, c) ==
    LET l == IF ~cell__valid(c) THEN cell__load(db, c) ELSE c IN
    [cell |-> l, out |-> IF cell__valid(l) THEN l.it.key ELSE l.index]

\* seek(row &, const pos &): std::all_of stops at the first cell whose seek
\* returns false
row__seek(db, its, p) ==
    LET sought(i) == cell__seek(db, its[i], p)
        failed == {i \in DOMAIN its: ~valid(sought(i).it)}
    IN  [i \in DOMAIN its |->
            IF \E j \in failed: j < i THEN its[i] ELSE sought(i)]

\* the trimmer of row::row: the cell it leaves and whether it is removed
trimmer(db, c, key, noempty) ==
    LET k == cell__key(db, c) IN
    IF noempty THEN [cell |-> k.cell, remove |-> k.out # key]
    ELSE [cell |-> IF k.out # key THEN [k.cell EXCEPT !.it = It("null", 0)]
                   ELSE k.cell,
          remove |-> FALSE]

\* trim(row &, closure): std::remove_if and erase
trim(db, its, key, noempty) ==
    LET t == [i \in DOMAIN its |-> trimmer(db, its[i], key, noempty)]
        kept == SelectSeq(t, LAMBDA r: ~r.remove)
    IN  [i \in DOMAIN kept |-> kept[i].cell]

\* row::row(d, key, colnames, opts): the cells of the built row
row__row(db, key, noempty) ==
    LET made == [i \in DOMAIN RowCols |->
                    [col |-> RowCols[i], index |-> key, it |-> It("fresh", 0)]]
    IN  IF key = 0 THEN row__seek(db, made, 0)
        ELSE trim(db, row__seek(db, made, key), key, noempty)

\* a row is built
RowCtor ==
    /\ xpc = "none"
    /\ \E key \in 0..MaxKey, noempty \in BOOLEAN:
         /\ xkey' = key
         /\ xits' = row__row(xdb, key, noempty)
    /\ xpc' = "built"
    /\ UNCHANGED <<xdb, xread>>
    /\ UNCHANGED RowRest

\* val() of a cell of the row
RowVal ==
    /\ xpc = "built"
    /\ \E i \in DOMAIN xits:
         LET r == cell__val(xdb, xits[i]) IN
         /\ xits' = [xits EXCEPT ![i] = r.cell]
         /\ xread' = <<i, r.out>>
    /\ UNCHANGED <<xdb, xkey, xpc>>
    /\ UNCHANGED RowRest

\* val() const of a cell of the row
RowValConst ==
    /\ xpc = "built"
    /\ \E i \in DOMAIN xits: xread' = <<i, cell__val_const(xits[i])>>
    /\ UNCHANGED <<xdb, xkey, xits, xpc>>
    /\ UNCHANGED RowRest

\* the components a row does not use
RowRestIdle ==
    AuthIdle /\ ChainIdle /\ SeekIdle /\ WriteIdle /\ CellIdle /\ InsertIdle /\ StatusIdle /\ OpenIdle /\ GenIdle /\ ConsoleIdle /\ VmIdle /\ HasIdle /\ MemberIdle /\ FedsIdle /\ CasIdle /\ IterIdle

InitRow ==
    /\ xdb \in [{RowCols[i] : i \in DOMAIN RowCols} -> SUBSET Keys]
    /\ xkey = 0
    /\ xits = << >>
    /\ xread = << >>
    /\ xpc = "none"
    /\ RowRestIdle

NextRow == RowCtor \/ RowVal \/ RowValConst

SpecRow == InitRow /\ [][NextRow]_vars

\* C35: a cell is valid exactly when its iterator is positioned on the key
\* that is the cell's index; a value read from a cell of a row built for key
\* k is the empty string or the value stored under k in the cell's column,
\* for every cell the row holds and every way to read it.
C35_OwnKey ==
    /\ \A i \in DOMAIN xits:
         /\ cell__valid(xits[i]) <=>
              (valid(xits[i].it) /\ xits[i].it.key = xits[i].index)
         /\ xits[i].index = xkey
         /\ cell__val(xdb, xits[i]).out \in {<< >>, <<xits[i].col, xkey>>}
         /\ cell__val_const(xits[i]) \in {<< >>, <<xits[i].col, xkey>>}
         /\ cell__val(xdb, xits[i]).out # << >> => xkey \in xdb[xits[i].col]
    /\ xread # << >> =>
         xread[2] \in {<< >>} \cup
            {<<RowCols[c], xkey>> : c \in {j \in DOMAIN RowCols: xkey \in xdb[RowCols[j]]}}

\* the seek of the row for key 1 left the cell of column "a" on key 2, and
\* the cell returned the empty string; the cell of column "b" is on key 1
C35_Witness ==
    /\ xpc = "built" /\ xkey = 1
    /\ Len(xits) = 2
    /\ xits[1].it = It("ok", 2) /\ 1 \notin xdb["a"]
    /\ xits[2].it = It("ok", 1)
    /\ xread = <<1, << >> >>

(***************************************************************************)
(* cell::compare_exchange (ircd/db.cc).  Two contexts hold the same cell,  *)
(* made without a snapshot; each calls once, and a call runs without       *)
(* interruption.  The value 0 is the empty string, which is also what      *)
(* val() returns for a key that has no value.                              *)
(***************************************************************************)
CasContexts == {1, 2}

\* cell::val() of the cell: the iterators it may leave, each with the value
\* returned
cas_val(it, live, changed) ==
    {[it |-> i, out |-> IF cell_valid(i) THEN i.view ELSE 0] :
        i \in (IF cell_valid(it) THEN {it} ELSE cell_load(it, 0, live, changed))}

\* cell::compare_exchange(expected, desired) given the value val() returned:
\* what is stored afterwards, `expected` afterwards, and the returned value
compare_exchange(existing, expected, desired, live) ==
    IF expected # existing
    THEN [db |-> live, expected |-> existing, ret |-> FALSE]
    ELSE [db |-> desired, expected |-> existing, ret |-> TRUE]

\* a context calls compare_exchange on the cell
CompareExchange ==
    \E ctx \in CasContexts, expected \in 0..MaxCasVal, desired \in 1..MaxCasVal:
        /\ \A i \in DOMAIN qlog: qlog[i].ctx # ctx
        /\ \E v \in cas_val(qit, qdb, qnew):
             LET r == compare_exchange(v.out, expected, desired, qdb) IN
             /\ qit' = v.it
             /\ qdb' = r.db
             /\ qnew' = (qnew \/ r.ret)
             /\ qlog' = Append(qlog, [ctx |-> ctx, expected |-> expected,
                                      desired |-> desired, stored |-> qdb,
                                      after |-> r.db, left |-> r.expected,
                                      ret |-> r.ret])
        /\ UNCHANGED CasRest

\* the components compare_exchange does not use
CasRestIdle ==
    AuthIdle /\ ChainIdle /\ SeekIdle /\ WriteIdle /\ CellIdle /\ InsertIdle /\ StatusIdle /\ OpenIdle /\ GenIdle /\ ConsoleIdle /\ VmIdle /\ HasIdle /\ MemberIdle /\ FedsIdle /\ RowIdle /\ IterIdle

InitCas ==
    /\ qdb \in 0..MaxCasVal
    /\ qit = CIt("null", 0)
    /\ qnew = FALSE
    /\ qlog = << >>
    /\ CasRestIdle

NextCas == CompareExchange

SpecCas == InitCas /\ [][NextCas]_vars

\* C36: a call returns true and stores `desired` exactly when the value
\* stored at the call equals `expected`; otherwise it stores nothing,
\* returns false and leaves the stored value in `expected`; of two calls by
\* different contexts with the same `expected` and different `desired`
\* values, neither equal to `expected`, at most one returns true.
C36_CompareExchange ==
    /\ \A i \in DOMAIN qlog:
         LET c == qlog[i] IN
         /\ c.ret <=> (c.stored = c.expected)
         /\ c.ret => c.after = c.desired
         /\ ~c.ret => (c.after = c.stored /\ c.left = c.stored)
    /\ \A i, j \in DOMAIN qlog:
         (/\ qlog[i].ctx # qlog[j].ctx
          /\ qlog[i].expected = qlog[j].expected
          /\ qlog[i].desired # qlog[j].desired
          /\ qlog[i].desired # qlog[i].expected
          /\ qlog[j].desired # qlog[j].expected)
            => ~(qlog[i].ret /\ qlog[j].ret)

\* ---------------------------------------------------------------------------
\* the generated auth_events against rule 2

\* the event a generated reference names, in either format
GenRef(r) == IF r.kind = "string" THEN r.id ELSE r.elems[1].id

\* the generated references as the auth_events given to the check
GenAuth == [i \in DOMAIN gout |-> GenRef(gout[i])]

\* the references of GenAuth that are taken by a selector
Selected(type, state_key) ==
    {i \in DOMAIN gout: /\ Stored[GenAuth[i]].type = type
                        /\ Stored[GenAuth[i]].state_key = state_key}

\* C37: the auth_events generated for an event of the room hold at most one
\* reference for each of create, power_levels, join_rules, the sender's
\* member event and the target's member event, and nothing else; no two of
\* them have the same (type, state_key), and rule 2 passes for the event
\* checked against them.
C37_GeneratedPassRule2 ==
    gpc = "done" =>
        /\ Cardinality(Selected("m.room.create", Empty)) <= 1
        /\ Cardinality(Selected("m.room.power_levels", Empty)) <= 1
        /\ Cardinality(Selected("m.room.join_rules", Empty)) <= 1
        /\ Cardinality(Selected("m.room.member", gev.sender)) <= 1
        /\ Cardinality(Selected("m.room.member", gev.state_key)) <= 1
        /\ DOMAIN gout =
              Selected("m.room.create", Empty)
              \cup Selected("m.room.power_levels", Empty)
              \cup Selected("m.room.join_rules", Empty)
              \cup Selected("m.room.member", gev.sender)
              \cup Selected("m.room.member", gev.state_key)
        /\ \A i, j \in DOMAIN gout:
              (/\ Stored[GenAuth[i]].type = Stored[GenAuth[j]].type
               /\ Stored[GenAuth[i]].state_key = Stored[GenAuth[j]].state_key)
                 => i = j
        /\ check_room_auth_rule_2(gev, GenAuth) = "ok"

\* an invite of UserB by UserA in a room with all five selectors present:
\* five references, and rule 2 passes
C37_Witness ==
    /\ gpc = "done" /\ gret
    /\ gev.type = "m.room.member" /\ membership(gev) = "invite"
    /\ gev.sender = UserA /\ gev.state_key = UserB
    /\ gstate = {1, 2, 3, 4, 6}
    /\ Len(gout) = 5
    /\ check_room_auth_rule_2(gev, GenAuth) = "ok"

\* ---------------------------------------------------------------------------
\* termination of chain::for_each

\* the number of times an index was put into the work queue
Entered(idx) == Cardinality({k \in DOMAIN queued: queued[k] = idx})

\* C38 as stated: no event index enters the work queue more than once.
C38_QueueOnce == \A idx \in 1..Len(cg): Entered(idx) <= 1

\* C38: for_each returns for every finite set of stored events, with cycles
\* and with references to events that are not stored; every event index
\* enters the work queue at most once by a reference, so the start index,
\* which is queued before the loop and is not in the set of seen indexes,
\* at most twice and every other index at most once.
C38_Terminates ==
    /\ [](\A idx \in 1..Len(cg):
             Entered(idx) <= IF idx = cstart THEN 2 ELSE 1)
    /\ <>(cpc = "done")

\* the start event and the second event reference each other, the first
\* event also references an event that is not stored; for_each has returned
\* and the start index was queued twice
C38_Witness ==
    /\ cpc = "done"
    /\ cstart = 1
    /\ \E k \in DOMAIN cg[1]: cg[1][k] = 2
    /\ \E k \in DOMAIN cg[1]: cg[1][k] = 0
    /\ cg[2] = <<1>>
    /\ queued = <<1, 2, 1>>

(***************************************************************************)
(* The comparison operators of column::const_iterator (ircd/db.cc).  A key *)
(* is one byte.  rocksdb::Slice::compare returns what memcmp returns for   *)
(* unequal bytes, of which only the sign is specified: a build returns     *)
(* either 1 and -1 or the difference of the bytes.  An outcome is the      *)
(* returned value and what became of the assertion of the operator.        *)
(***************************************************************************)
slice_compare(build, ak, bk) ==
    IF ak = bk THEN 0
    ELSE IF build = "sign" THEN (IF ak > bk THEN 1 ELSE -1)
    ELSE ak - bk

\* const_iterator::operator!()
const_iterator__not(it) ==
    IF it.st = "null" THEN TRUE
    ELSE IF ~valid(it) THEN TRUE
    ELSE FALSE

\* const_iterator::operator bool()
const_iterator__bool(it) == ~const_iterator__not(it)

Outcome(r, asserted) == [ret |-> r, asserted |-> asserted]

\* operator==(const column::const_iterator &, const column::const_iterator &)
operator_eq(build, a, b) ==
    IF const_iterator__bool(a) /\ const_iterator__bool(b)
    THEN Outcome(slice_compare(build, a.key, b.key) = 0, "unreached")
    ELSE IF const_iterator__not(a) /\ const_iterator__not(b)
    THEN Outcome(TRUE, "unreached")
    ELSE Outcome(FALSE, "unreached")

\* operator>(const column::const_iterator &, const column::const_iterator &)
operator_gt(build, a, b) ==
    IF const_iterator__bool(a) /\ const_iterator__bool(b)
    THEN Outcome(slice_compare(build, a.key, b.key) = 1, "unreached")
    ELSE IF const_iterator__not(a) /\ const_iterator__bool(b)
    THEN Outcome(TRUE, "unreached")
    ELSE IF const_iterator__not(a) /\ const_iterator__not(b)
    THEN Outcome(FALSE, "unreached")
    ELSE Outcome(FALSE, IF const_iterator__not(a) /\ const_iterator__bool(b)
                        THEN "holds" ELSE "fails")

\* operator<(const column::const_iterator &, const column::const_iterator &)
operator_lt(build, a, b) ==
    IF const_iterator__bool(a) /\ const_iterator__bool(b)
    THEN Outcome(slice_compare(build, a.key, b.key) = -1, "unreached")
    ELSE IF const_iterator__not(a) /\ const_iterator__bool(b)
    THEN Outcome(FALSE, "unreached")
    ELSE IF const_iterator__not(a) /\ const_iterator__not(b)
    THEN Outcome(FALSE, "unreached")
    ELSE Outcome(TRUE, IF const_iterator__bool(a) /\ const_iterator__not(b)
                       THEN "holds" ELSE "fails")

\* a == b is evaluated
OperatorEq ==
    /\ ybuild # "none" /\ yeq = << >>
    /\ yeq' = operator_eq(ybuild, ya, yb)
    /\ UNCHANGED <<ya, yb, ybuild, ygt, ylt>>
    /\ UNCHANGED IterRest

\* a > b is evaluated
OperatorGt ==
    /\ ybuild # "none" /\ ygt = << >>
    /\ ygt' = operator_gt(ybuild, ya, yb)
    /\ UNCHANGED <<ya, yb, ybuild, yeq, ylt>>
    /\ UNCHANGED IterRest

\* a < b is evaluated
OperatorLt ==
    /\ ybuild # "none" /\ ylt = << >>
    /\ ylt' = operator_lt(ybuild, ya, yb)
    /\ UNCHANGED <<ya, yb, ybuild, yeq, ygt>>
    /\ UNCHANGED IterRest

\* the components the comparisons do not use
IterRestIdle ==
    AuthIdle /\ ChainIdle /\ SeekIdle /\ WriteIdle /\ CellIdle /\ InsertIdle /\ StatusIdle /\ OpenIdle /\ GenIdle /\ ConsoleIdle /\ VmIdle /\ HasIdle /\ MemberIdle /\ FedsIdle /\ RowIdle /\ CasIdle

\* the iterators of a column: without a rocksdb iterator, at the end, on a key
InitIter ==
    /\ ya \in {It("null", 0), It("end", 0)} \cup {It("ok", k) : k \in Keys}
    /\ yb \in {It("null", 0), It("end", 0)} \cup {It("ok", k) : k \in Keys}
    /\ ybuild \in {"sign", "difference"}
    /\ yeq = << >>
    /\ ygt = << >>
    /\ ylt = << >>
    /\ IterRestIdle

NextIter == OperatorEq \/ OperatorGt \/ OperatorLt

SpecIter == InitIter /\ [][NextIter]_vars

\* C39: for any two iterators exactly one of a < b, a == b, a > b holds, an
\* iterator that is not valid is greater than every valid one and equal to
\* every other that is not valid, valid ones are ordered by their keys, and
\* no assertion of the operators fails.
C39_TotalOrder ==
    (yeq # << >> /\ ygt # << >> /\ ylt # << >>) =>
        /\ Cardinality({o \in {"lt", "eq", "gt"}:
                           \/ o = "lt" /\ ylt.ret
                           \/ o = "eq" /\ yeq.ret
                           \/ o = "gt" /\ ygt.ret}) = 1
        /\ (valid(ya) /\ ~valid(yb)) => ylt.ret
        /\ (~valid(ya) /\ valid(yb)) => ygt.ret
        /\ (~valid(ya) /\ ~valid(yb)) => yeq.ret
        /\ (valid(ya) /\ valid(yb)) =>
              /\ ylt.ret <=> ya.key < yb.key
              /\ ygt.ret <=> ya.key > yb.key
        /\ ylt.asserted # "fails"
        /\ ygt.asserted # "fails"

====
